---- MODULE Spec2Model ----
(***************************************************************************)
(* Dendron engine client (packages/engine-server/src/engineClient.ts) and  *)
(* the MoveNoteCommand that drives it: the client's in-memory note graph   *)
(* (notes, noteFnames, fuseEngine) and the handlers that keep it in step   *)
(* with the change batches the API server returns.                         *)
(***************************************************************************)
EXTENDS Integers, Sequences, FiniteSets, TLC

\* ---------------------------------------------------------------- bounds
\* number of note ids
MaxId == 3
\* number of tokens of a note body
MaxBody == 2
\* number of vaults dendron.yml can list
MaxVaults == 3
\* number of doctor runs, and of move and rename commands, in one behaviour
MaxRuns == 2
\* CONSTANTS.DENDRON_DEFAULT_MAX_NOTE_LENGTH
DefaultMaxNoteLength == 204800
\* number of engine requests issued in one behaviour
MaxOps == 2
\* number of note ids generated after the workspace was loaded
MaxGen == 4

\* ------------------------------------------------------------ data model
Ids == 1..MaxId
\* ids that genUUID hands out
GenIds == (MaxId + 1)..(MaxId + MaxGen)
Fnames == {"a", "a.b", "a.c"}
Vaults == {"v1", "v2"}
\* titles that notes carry; the placeholder of refreshNotesV2 sorts between them
Titles == {"bar", "zoo"}
PlaceholderTitle == "foo"
\* string order of the titles, as a rank
TitleRank == [t \in Titles \cup {PlaceholderTitle} |->
                 CASE t = "bar" -> 1 [] t = "foo" -> 2 [] t = "zoo" -> 3]
\* the fname of the hierarchy parent ("" for a root)
ParentFname == [f \in Fnames |-> IF f = "a" THEN "" ELSE "a"]

Note(i, f, v, t, cs) == [id |-> i, fname |-> f, vault |-> v, title |-> t, children |-> cs]
\* a NoteChangeEntry; prev is <<>> (no prevNote) or <<prevNote>>
Entry(s, n, p) == [status |-> s, note |-> n, prev |-> p]
Create(n) == Entry("create", n, <<>>)
Delete(n) == Entry("delete", n, <<>>)
Update(n, p) == Entry("update", n, p)

Range(s) == {s[k] : k \in DOMAIN s}
\* delete this.notes[id]
Remove(ns, i) == [k \in DOMAIN ns \ {i} |-> ns[k]]
\* this.notes[id] = note
Put(ns, n) == [k \in DOMAIN ns \cup {n.id} |-> IF k = n.id THEN n ELSE ns[k]]

\* ------------------------------------------- NoteFNamesDict, FuseEngine
FnAdd(fn, n) == [fn EXCEPT ![n.fname] = @ \cup {n.id}]
FnDelete(fn, n) == [fn EXCEPT ![n.fname] = @ \ {n.id}]
\* new NoteFNamesDict()
NoFnames == [f \in Fnames |-> {}]
\* new NoteFNamesDict(_.values(notes))
FnBuild(ns) == [f \in Fnames |-> {ns[i].id : i \in {k \in DOMAIN ns : ns[k].fname = f}}]
\* fuseEngine.updateNotesIndex(notes): the index is rebuilt from the notes
UpdateNotesIndex(ns) == {[id |-> ns[k].id, fname |-> ns[k].fname, vault |-> ns[k].vault] : k \in DOMAIN ns}
\* fuseEngine.queryNote({qs}): the index entries matching the query string
FuseQuery(idx, qs) == {e \in idx : e.fname = qs}

\* ---------------------------------------------------------- _.sortBy
RECURSIVE Insert(_, _, _)
Insert(s, x, key) ==
    IF s = <<>> THEN <<x>>
    ELSE IF key[Head(s)] <= key[x] THEN <<Head(s)>> \o Insert(Tail(s), x, key)
    ELSE <<x>> \o s
\* SortBy that returns the list in the order given
SortByGiven(s, key) == s
RECURSIVE SortBy(_, _)
SortBy(s, key) ==
    IF s = <<>> THEN <<>>
    ELSE Insert(SortBy(SubSeq(s, 1, Len(s) - 1), key), s[Len(s)], key)

\* ------------------------------------------------------ refreshNotesV2
\* _.find(notes, (ent) => ent.note.id === id)?.note || {title: "foo"}
BatchTitle(batch, c) ==
    IF \E k \in DOMAIN batch : batch[k].note.id = c
    THEN batch[CHOOSE k \in DOMAIN batch :
                 /\ batch[k].note.id = c
                 /\ \A j \in 1..(k - 1) : batch[j].note.id # c].note.title
    ELSE PlaceholderTitle
\* _.get(this.notes, id, <the above>).title
KnownTitle(ns, batch, c) == IF c \in DOMAIN ns THEN ns[c].title ELSE BatchTitle(batch, c)
SortKey(ns, batch) == [c \in Ids \cup GenIds |-> TitleRank[KnownTitle(ns, batch, c)]]

\* UpdateFnames without the removal of prevNote
UpdateFnamesKeepsPrev(fn, e) ==
    LET hasPrev == Len(e.prev) = 1
        changed == \/ ~hasPrev
                   \/ e.prev[1].fname # e.note.fname
                   \/ e.prev[1].id # e.note.id
    IN  IF changed THEN FnAdd(fn, e.note) ELSE fn
\* the fname dictionary after an update entry
UpdateFnames(fn, e) ==
    LET hasPrev == Len(e.prev) = 1
        changed == \/ ~hasPrev
                   \/ e.prev[1].fname # e.note.fname
                   \/ e.prev[1].id # e.note.id
    IN  IF changed
        THEN FnAdd(IF hasPrev THEN FnDelete(fn, e.prev[1]) ELSE fn, e.note)
        ELSE fn

\* ApplyEntry with a delete that takes the children of the note along
ApplyEntryCascade(st, batch, e) ==
    CASE e.status = "delete" ->
           [notes |-> [k \in DOMAIN st.notes \ ({e.note.id} \cup Range(e.note.children))
                         |-> st.notes[k]],
            fnames |-> FnDelete(st.fnames, e.note)]
      [] e.status = "create" ->
           [notes |-> Put(st.notes, e.note), fnames |-> FnAdd(st.fnames, e.note)]
      [] e.status = "update" ->
           [notes |-> Put(st.notes,
                          [e.note EXCEPT !.children = SortBy(@, SortKey(st.notes, batch))]),
            fnames |-> UpdateFnames(st.fnames, e)]
\* one iteration of notes.forEach; st = [notes, fnames]
ApplyEntry(st, batch, e) ==
    CASE e.status = "delete" ->
           [notes |-> Remove(st.notes, e.note.id), fnames |-> FnDelete(st.fnames, e.note)]
      [] e.status = "create" ->
           [notes |-> Put(st.notes, e.note), fnames |-> FnAdd(st.fnames, e.note)]
      [] e.status = "update" ->
           [notes |-> Put(st.notes,
                          [e.note EXCEPT !.children = SortBy(@, SortKey(st.notes, batch))]),
            fnames |-> UpdateFnames(st.fnames, e)]

\* the state after the first k entries of the batch
RECURSIVE RefreshPrefix(_, _, _)
RefreshPrefix(st, batch, k) ==
    IF k = 0 THEN st ELSE ApplyEntry(RefreshPrefix(st, batch, k - 1), batch, batch[k])

refreshNotesV2(st, batch) == RefreshPrefix(st, batch, Len(batch))

\* the entries as refreshNotesV2 leaves them: it assigns the sorted children
\* to ent.note in place, so whoever holds the entry afterwards sees them sorted
SortedEntries(st, batch) ==
    [k \in DOMAIN batch |->
        IF batch[k].status = "update"
        THEN [batch[k] EXCEPT !.note.children =
                 SortBy(@, SortKey(RefreshPrefix(st, batch, k - 1).notes, batch))]
        ELSE batch[k]]

\* --------------------------------------- the API server's change batches
Min(S) == CHOOSE x \in S : \A y \in S : x <= y
Without(cs, i) == SelectSeq(cs, LAMBDA c : c # i)
Locs == Fnames \X Vaults
FreeLocs(ns) == {l \in Locs : \A i \in DOMAIN ns : <<ns[i].fname, ns[i].vault>> # l}
FreshIds(ns) == Ids \ DOMAIN ns
\* the id the server gives to a note it creates for createIfNew
NextId(ns) == Min(GenIds \ DOMAIN ns)
\* the notes at the hierarchy parent of note n
ParentIds(ns, n) ==
    {i \in DOMAIN ns : /\ ns[i].fname = ParentFname[n.fname]
                       /\ ns[i].vault = n.vault
                       /\ i # n.id}
ParentOf(ns, n) == ns[Min(ParentIds(ns, n))]
\* update entries for the parent that gains / loses child n
ParentAdd(ns, n) ==
    IF ParentIds(ns, n) = {} THEN <<>>
    ELSE LET p == ParentOf(ns, n)
         IN  <<Update([p EXCEPT !.children = Append(Without(@, n.id), n.id)], <<p>>)>>
ParentDrop(ns, n) ==
    IF ParentIds(ns, n) = {} THEN <<>>
    ELSE LET p == ParentOf(ns, n)
         IN  IF n.id \in Range(p.children)
             THEN <<Update([p EXCEPT !.children = Without(@, n.id)], <<p>>)>>
             ELSE <<>>
\* lists of at most two distinct child ids for note i: notes below it in the
\* hierarchy, and one id the client has not loaded
ChildIds(ns, i) ==
    {c \in DOMAIN ns \ {i} :
        ns[c].vault = ns[i].vault /\ ParentFname[ns[c].fname] = ns[i].fname}
    \cup (IF FreshIds(ns) = {} THEN {} ELSE {Min(FreshIds(ns))})
ChildLists(ns, i) ==
    {<<>>} \cup {<<c>> : c \in ChildIds(ns, i)}
           \cup ({<<c, d>> : c, d \in ChildIds(ns, i)} \ {<<c, c>> : c \in Ids})

\* a new note with id i at a free location, its parent updated first
SrvNew(ns, i) ==
    {ParentAdd(ns, n) \o <<Create(n)>> :
        n \in {Note(i, l[1], l[2], t, <<>>) : l \in FreeLocs(ns), t \in Titles}}
\* note i written with another title: in place, or the old note replaced
SrvRetitle(ns, i) ==
    UNION {LET n == [ns[i] EXCEPT !.title = t]
           IN  { <<Update(n, <<ns[i]>>)>>,
                 <<Delete(ns[i])>> \o ParentAdd(ns, n) \o <<Create(n)>> } :
           t \in Titles \ {ns[i].title}}
\* note i written under a regenerated id
SrvRegen(ns, i) ==
    IF FreshIds(ns) = {} THEN {}
    ELSE LET n == [ns[i] EXCEPT !.id = Min(FreshIds(ns))]
         IN  { <<Update(n, <<ns[i]>>)>>, <<Delete(ns[i]), Update(n, <<ns[i]>>)>> }
\* the children list of note i sent anew, without prevNote (a partial batch:
\* the children need not be loaded)
SrvChildren(ns, i) ==
    {<<Update([ns[i] EXCEPT !.children = cs], <<>>)>> : cs \in ChildLists(ns, i) \ {ns[i].children}}
SrvWrite(ns, i) ==
    IF i \notin DOMAIN ns THEN SrvNew(ns, i)
    ELSE SrvRetitle(ns, i) \cup SrvRegen(ns, i) \cup SrvChildren(ns, i)
SrvDelete(ns, i) ==
    IF i \notin DOMAIN ns THEN {} ELSE {ParentDrop(ns, ns[i]) \o <<Delete(ns[i])>>}
\* note i moved to a free location of its vault, or to its fname in another vault
RenameLocs(ns, i) ==
    {l \in FreeLocs(ns) : l[1] = ns[i].fname \/ l[2] = ns[i].vault}
SrvRename(ns, i) ==
    IF i \notin DOMAIN ns THEN {}
    ELSE UNION {LET n == [ns[i] EXCEPT !.fname = l[1], !.vault = l[2], !.title = t]
                IN  { <<Update(n, <<ns[i]>>)>>,
                      <<Delete(ns[i])>> \o ParentDrop(ns, ns[i])
                          \o ParentAdd(ns, n) \o <<Create(n)>> } :
                l \in RenameLocs(ns, i), t \in Titles}
SrvCreateIfNew(ns) ==
    {<<>>} \cup (IF FreshIds(ns) = {} THEN {} ELSE SrvNew(ns, Min(FreshIds(ns))))
\* one new note, or two new notes of one vault and title
SrvBulkAdd(ns) ==
    IF FreshIds(ns) = {} THEN {<<>>}
    ELSE SrvNew(ns, Min(FreshIds(ns))) \cup
         UNION {LET ns1 == refreshNotesV2([notes |-> ns, fnames |-> NoFnames], b).notes
                    n1 == b[Len(b)].note
                IN  IF FreshIds(ns1) = {} THEN {}
                    ELSE {b \o c : c \in {x \in SrvNew(ns1, Min(FreshIds(ns1))) :
                                             /\ x[Len(x)].note.vault = n1.vault
                                             /\ x[Len(x)].note.title = n1.title}} :
                b \in SrvNew(ns, Min(FreshIds(ns)))}

\* the graphs workspaceInit / workspaceSync return: a root, and up to two
\* more notes below it or in the other vault, children sorted by title
HierChildren(ns, i) ==
    LET cs == {c \in DOMAIN ns : ns[c].vault = ns[i].vault /\ ParentFname[ns[c].fname] = ns[i].fname}
        RECURSIVE Listed(_)
        Listed(S) == IF S = {} THEN <<>> ELSE <<Min(S)>> \o Listed(S \ {Min(S)})
    IN  SortBy(Listed(cs), [c \in Ids |-> IF c \in DOMAIN ns THEN TitleRank[ns[c].title] ELSE 0])
WithChildren(ns) == [i \in DOMAIN ns |-> [ns[i] EXCEPT !.children = HierChildren(ns, i)]]
SrvGraphs ==
    {WithChildren(g) :
       g \in {[i \in S |-> Note(i, IF i = 1 THEN "a" ELSE IF i = 2 THEN l2[1] ELSE "a.c",
                                   IF i = 2 THEN l2[2] ELSE "v1",
                                   IF i = 1 THEN t1 ELSE IF i = 2 THEN t2 ELSE t3, <<>>)] :
              S \in {{1}, {1, 2}, {1, 3}, {1, 2, 3}}, l2 \in {<<"a.b", "v1">>, <<"a", "v2">>},
              t1 \in {"bar"}, t2 \in Titles, t3 \in Titles}}

\* ------------------------------------------------------------- the state
VARIABLES
    notes,       \* DendronEngineClient.notes: id -> NoteProps
    noteFnames,  \* DendronEngineClient.noteFnames: fname -> ids
    fuse,        \* DendronEngineClient.fuseEngine: the notes index
    pending,     \* the engine calls that have not returned yet
    nIssued,     \* number of engine calls made so far
    last,        \* what the step just taken did: the response its handler was
                 \* given, how the handler went on, the event it fired
    mv,          \* MoveNoteCommand.moveNotes: its place in the loop over the moves
    schemas,     \* DendronEngineClient.schemas: the ids of the schema modules held
    fuseSchemas, \* DendronEngineClient.fuseEngine: the schemas index
    dr,          \* DoctorService.executeDoctorActions: the run in progress
    lnk,         \* EngineUtils.refreshNoteLinksAndAnchors: the notes, their links and the config
    disk,        \* the files of the workspace root: port files and vault caches
    git,         \* WorkspaceService: the repositories and the sync run over them
    conf,        \* dendron.yml: its content, its backups and the call that edits it
    fw           \* the file watcher's pause flag and the commands that set it

\* the state outside the engine client and the doctor service
wsVars == <<lnk, disk, git, conf, fw>>
vars == <<notes, noteFnames, fuse, pending, nIssued, last, mv, schemas, fuseSchemas, dr, wsVars>>
\* nothing is going on outside the engine client and the doctor service
Elsewhere == lnk = <<>> /\ disk = <<>> /\ git = <<>> /\ conf = <<>> /\ fw = <<>>
graph == <<notes, noteFnames, fuse>>

\* an event payload: a batch, or undefined
NoEvent == [defined |-> FALSE, entries |-> <<>>]
Event(entries) == [defined |-> TRUE, entries |-> entries]
Req(op, i, upd, arg) ==
    [seq |-> nIssued + 1, op |-> op, pc |-> "awaiting", id |-> i, upd |-> upd,
     arg |-> arg, existing |-> <<>>, error |-> FALSE, hasData |-> FALSE,
     batch |-> <<>>, payload |-> NoEvent]
\* out: how the method went on; ret: the value it returned; thrown: what it
\* threw; got: the response of a method that replaces the notes and the schemas
Outcome(r, resp, out) ==
    [seq |-> r.seq, op |-> r.op, error |-> resp.error, hasData |-> resp.hasData,
     out |-> out, event |-> NoEvent, ret |-> "none", thrown |-> "none", got |-> <<>>]
NoOutcome ==
    [seq |-> 0, op |-> "none", error |-> FALSE, hasData |-> FALSE, out |-> "none",
     event |-> NoEvent, ret |-> "none", thrown |-> "none", got |-> <<>>]

\* the ids of the schema modules of a workspace
SchemaIds == {"s1", "s2"}
SomeSchemas == {"s1"}
\* ------------------------------------------------ DoctorService: the links
\* the reserved id of a root note; the notes of the graphs carry other ids
RootId == 0
\* the vaults of the engine: a workspace of one vault or of two
WsVaults == {<<"v1">>, <<"v1", "v2">>}
\* a DLink; vaultName "" stands for a link without a vault prefix
Link(type, from, fname, vname) ==
    [type |-> type, from |-> from, to |-> [fname |-> fname, vaultName |-> vname]]
\* the note of a doctor run: the fields of NoteProps the actions read
Cand(i, f, v, a) ==
    [id |-> i, fname |-> f, vault |-> v, stub |-> a.stub, body |-> a.body,
     links |-> a.links, airtableId |-> a.airtableId]
hasVaultPrefix(link) == link.to.vaultName # ""
\* VaultUtils.getVaultByName: <<vault>>, or <<>> for undefined
getVaultByName(vaults, vname) ==
    IF vname \in Range(vaults) THEN <<vname>> ELSE <<>>
\* NoteUtils.getNoteByFnameV5: whether ns holds a note of that fname and vault
getNoteByFnameV5(fname, vault, ns) ==
    \E k \in DOMAIN ns : ns[k].fname = fname /\ ns[k].vault = vault
findBrokenLinks(note, ns, vaults) ==
    LET IsBroken(link) ==
        IF link.type # "wiki" THEN FALSE
        ELSE LET vault == IF hasVaultPrefix(link)
                          THEN getVaultByName(vaults, link.to.vaultName) ELSE <<>>
             IN  IF hasVaultPrefix(link) /\ vault = <<>> THEN FALSE
                 ELSE LET isMultiVault == Len(vaults) > 1
                          noteExists ==
                              getNoteByFnameV5(link.to.fname,
                                               IF hasVaultPrefix(link) THEN vault[1] ELSE note.vault,
                                               ns)
                      IN  IF hasVaultPrefix(link) THEN ~noteExists
                          ELSE IF ~noteExists THEN ~isMultiVault
                          ELSE FALSE
    IN  SelectSeq(note.links, IsBroken)
\* _.uniqBy(links, "to.fname"): the first link of every target fname
UniqByFname(links) ==
    LET keep == {k \in DOMAIN links : \A j \in 1..(k - 1) : links[j].to.fname # links[k].to.fname}
        RECURSIVE Pick(_)
        Pick(k) == IF k > Len(links) THEN <<>>
                   ELSE (IF k \in keep THEN <<links[k]>> ELSE <<>>) \o Pick(k + 1)
    IN  Pick(1)
\* NoteUtils.create({fname, vault}) for every link kept: a note under an id
\* of its own (-k), which the engine is never told
getBrokenLinkDestinations(ns, vaults) ==
    LET RECURSIVE brokenWikiLinks(_)
        brokenWikiLinks(k) ==
            IF k > Len(ns) THEN <<>>
            ELSE findBrokenLinks(ns[k], ns, vaults) \o brokenWikiLinks(k + 1)
        uniq == UniqByFname(brokenWikiLinks(1))
    IN  [k \in DOMAIN uniq |->
            Cand(-k, uniq[k].to.fname,
                 IF uniq[k].to.vaultName # "" THEN uniq[k].to.vaultName
                 ELSE uniq[k].from.vaultName,
                 [stub |-> FALSE, body |-> "", links |-> <<>>, airtableId |-> FALSE])]

\* ------------------------------------------- DoctorService: the run state
DoctorActions ==
    {"h1ToTitle", "h1ToH2", "removeStubs", "createMissingLinkedNotes",
     "regenerateNoteId", "findBrokenLinks", "fixAirtableMetadata"}
\* the default of opts.limit
DefaultLimit == 99999
\* note bodies are empty, plain text, text under a first-level header or text
\* under a second-level header
\* RemarkUtils.h1ToTitle: the first-level header becomes the title and leaves the body
H1ToTitle == [b \in {"", "text", "# h1", "## h2"} |-> IF b = "# h1" THEN "text" ELSE b]
\* RemarkUtils.h1ToH2: the first-level header becomes a second-level header
H1ToH2 == [b \in {"", "text", "# h1", "## h2"} |-> IF b = "# h1" THEN "## h2" ELSE b]
PlainNote == [stub |-> FALSE, body |-> "text", links |-> <<>>, airtableId |-> FALSE]
\* the links a note of vault v may hold: none, a note reference, a wiki link
\* to fname a or a.c without a vault prefix or with one: the name of a vault
\* of the workspaces, or v3, the name of no vault
LinkLists(f, v) ==
    {<<>>, <<Link("ref", [fname |-> f, vaultName |-> v], "a.c", "")>>}
    \cup {<<Link("wiki", [fname |-> f, vaultName |-> v], t, vn)>> :
            t \in {"a", "a.c"}, vn \in {"", "v3"} \cup Vaults}
\* what the notes of a run of the action may look like
DoctorAttrs(action, f, v) ==
    CASE action \in {"h1ToTitle", "h1ToH2"} ->
            {[PlainNote EXCEPT !.body = b] : b \in {"text", "# h1"}}
      [] action = "removeStubs" ->
            {PlainNote, [PlainNote EXCEPT !.body = ""],
             [PlainNote EXCEPT !.body = "", !.stub = TRUE]}
      [] action \in {"createMissingLinkedNotes", "findBrokenLinks"} ->
            {[PlainNote EXCEPT !.links = l] : l \in LinkLists(f, v)}
      [] action = "fixAirtableMetadata" ->
            {[PlainNote EXCEPT !.airtableId = b] : b \in BOOLEAN}
      [] OTHER -> {PlainNote}
\* _.values(engine.notes) as the action may find them, for regenerateNoteId
\* with or without the root note of the vault in front
CandidateLists(ns, action) ==
    LET RECURSIVE Listed(_)
        Listed(S) == IF S = {} THEN <<>> ELSE <<Min(S)>> \o Listed(S \ {Min(S)})
        ids == Listed(DOMAIN ns)
        lists == {[k \in DOMAIN ids |->
                      Cand(ids[k], ns[ids[k]].fname, ns[ids[k]].vault, a[k])] :
                  a \in {x \in [DOMAIN ids -> UNION {DoctorAttrs(action, ns[i].fname, ns[i].vault) :
                                                        i \in DOMAIN ns}] :
                            \A k \in DOMAIN ids :
                               x[k] \in DoctorAttrs(action, ns[ids[k]].fname, ns[ids[k]].vault)}}
    IN  IF action = "regenerateNoteId"
        THEN lists \cup {<<Cand(RootId, "root", "v1", PlainNote)>> \o l : l \in lists}
        ELSE lists
\* the workspaces of the doctor runs: two notes in one vault or in two
DoctorGraphs ==
    {g \in SrvGraphs : DOMAIN g = {1, 2} /\ \A i \in DOMAIN g : g[i].title = "bar"}
NoDoctor ==
    [pc |-> "idle", run |-> "none", action |-> "none", vaults |-> <<>>,
     candidates |-> <<>>, limit |-> 0, dryRun |-> FALSE,
     notes |-> <<>>, idx |-> 0, numChanges |-> 0, resp |-> <<>>, req |-> 0, gen |-> 0]

\* no MoveNoteCommand is running
NotMoving == [pc |-> "idle", moves |-> <<>>, idx |-> 0, req |-> 0, allChanges |-> <<>>]

\* what the server can answer: data or none, with or without an error
Responses(menu) ==
    {[error |-> e, hasData |-> TRUE, data |-> d] : e \in BOOLEAN, d \in menu}
    \cup {[error |-> e, hasData |-> FALSE, data |-> <<>>] : e \in BOOLEAN}

Init ==
    /\ notes = <<>>
    /\ noteFnames = NoFnames
    /\ fuse = {}
    /\ pending = {}
    /\ nIssued = 0
    /\ last = NoOutcome
    /\ mv = NotMoving
    /\ schemas = {}
    /\ fuseSchemas = {}
    /\ dr = NoDoctor
    /\ Elsewhere

\* ------------------------------------------------- steps of the handlers
\* the handler returns value v without touching the graph
Returns(r, resp, v) ==
    /\ pending' = pending \ {r}
    /\ last' = [Outcome(r, resp, "returned") EXCEPT !.ret = v]
    /\ UNCHANGED <<notes, noteFnames, fuse, schemas, fuseSchemas, nIssued, mv, dr, wsVars>>
\* the handler throws e without touching the graph
Throws(r, resp, e) ==
    /\ pending' = pending \ {r}
    /\ last' = [Outcome(r, resp, "threw") EXCEPT !.thrown = e]
    /\ UNCHANGED <<notes, noteFnames, fuse, schemas, fuseSchemas, nIssued, mv, dr, wsVars>>

\* the handler replaces the notes and the schemas by those of resp, rebuilds
\* the fname index and both search indexes, and returns value v
Replaces(r, resp, v) ==
    /\ notes' = resp.data
    /\ noteFnames' = FnBuild(resp.data)
    /\ schemas' = resp.schemas
    /\ fuse' = UpdateNotesIndex(resp.data)
    /\ fuseSchemas' = resp.schemas
    /\ pending' = pending \ {r}
    /\ last' = [Outcome(r, resp, "returned") EXCEPT !.ret = v, !.got = <<resp>>]
    /\ UNCHANGED <<nIssued, mv, dr, wsVars>>

\* Refreshes that drops a response arriving before that of an earlier call
RefreshesInIssueOrder(r, resp, changed, payload) ==
    IF \E x \in pending : x.seq < r.seq /\ x.pc = "awaiting"
    THEN Returns(r, resp, "resp")
    ELSE LET st == refreshNotesV2([notes |-> notes, fnames |-> noteFnames], changed)
         IN  /\ notes' = st.notes
             /\ noteFnames' = st.fnames
             /\ fuse' = UpdateNotesIndex(st.notes)
             /\ pending' = (pending \ {r}) \cup
                              {[r EXCEPT !.pc = "refreshed", !.error = resp.error,
                                         !.hasData = resp.hasData,
                                         !.batch = changed, !.payload = payload]}
             /\ last' = Outcome(r, resp, "refreshed")
             /\ UNCHANGED <<schemas, fuseSchemas, nIssued, mv, dr, wsVars>>
\* Refreshes with the event fired before the batch is applied
FiresBeforeRefresh(r, resp, changed, payload) ==
    /\ pending' = (pending \ {r}) \cup
                     {[r EXCEPT !.pc = "fired", !.batch = changed, !.payload = payload]}
    /\ last' = [Outcome(r, resp, "fired") EXCEPT !.event = payload]
    /\ UNCHANGED <<notes, noteFnames, fuse, schemas, fuseSchemas, nIssued, mv, dr, wsVars>>
\* await this.refreshNotesV2(changed): the batch is applied, then the index updated;
\* payload is what the handler will hand to the listeners
Refreshes(r, resp, changed, payload) ==
    LET st == refreshNotesV2([notes |-> notes, fnames |-> noteFnames], changed)
    IN  /\ notes' = st.notes
        /\ noteFnames' = st.fnames
        /\ fuse' = UpdateNotesIndex(st.notes)
        /\ pending' = (pending \ {r}) \cup
                         {[r EXCEPT !.pc = "refreshed", !.error = resp.error,
                                    !.hasData = resp.hasData,
                                    !.batch = changed, !.payload = payload]}
        /\ last' = Outcome(r, resp, "refreshed")
        /\ UNCHANGED <<schemas, fuseSchemas, nIssued, mv, dr, wsVars>>

\* the entries of data as they are after refreshNotesV2(changed) sorted children
\* in place; changed holds the entries of data that are not rejected
Mutated(data, changed) ==
    LET sorted == SortedEntries([notes |-> notes, fnames |-> noteFnames], changed)
        kept(k) == Cardinality({j \in 1..k : data[j].status # "delete"})
    IN  IF Len(changed) = Len(data) THEN sorted
        ELSE [k \in DOMAIN data |->
                 IF data[k].status = "delete" THEN data[k] ELSE sorted[kept(k)]]

\* _.reject(changed, (ent) => ent.status === "delete")
RejectDeletes(data) == SelectSeq(data, LAMBDA e : e.status # "delete")

\* no continuation of an awaited refreshNotesV2 is queued: such a continuation
\* is a microtask and runs before the next response or call is handled
Quiet == \A r \in pending : r.pc # "refreshed"
Awaiting(op) == {r \in pending : r.op = op /\ r.pc = "awaiting"}

\* ----------------------------------------------------------- the calls
\* the notes a caller hands to updateNote: a note with a new title, a note
\* under a regenerated id, a new note
UpdateArgs(ns) ==
    {[ns[i] EXCEPT !.title = t] : i \in DOMAIN ns, t \in Titles}
    \cup (IF FreshIds(ns) = {} THEN {}
          ELSE {[ns[i] EXCEPT !.id = Min(FreshIds(ns))] : i \in DOMAIN ns}
               \cup {Note(Min(FreshIds(ns)), l[1], l[2], t, <<>>) :
                        l \in FreeLocs(ns), t \in Titles})
CallArgs(ns) ==
    {[op |-> o, id |-> 0, upd |-> FALSE, arg |-> <<>>] :
        o \in {"init", "bulkAddNotes", "getNoteByPath"}}
    \cup {[op |-> o, id |-> i, upd |-> FALSE, arg |-> <<>>] :
            o \in {"deleteNote", "renameNote"}, i \in Ids}
    \cup {[op |-> "writeNote", id |-> i, upd |-> u, arg |-> <<>>] : i \in Ids, u \in BOOLEAN}
    \cup {[op |-> "updateNote", id |-> n.id, upd |-> FALSE, arg |-> <<n>>] : n \in UpdateArgs(ns)}

\* a method of the client is called and sends its request to the API server
Call(c) ==
    /\ nIssued < MaxOps
    /\ Quiet
    /\ pending' = pending \cup {Req(c.op, c.id, c.upd, c.arg)}
    /\ nIssued' = nIssued + 1
    /\ last' = NoOutcome
    /\ UNCHANGED <<notes, noteFnames, fuse, schemas, fuseSchemas>>

\* ------------------------------------------------------------- init
\* what workspaceInit and workspaceSync can answer; ss: the schema sets they may hold
InitResponsesWith(ss) ==
    {[error |-> sev # "none", minor |-> sev = "minor", hasData |-> TRUE,
      data |-> g, schemas |-> s] :
        sev \in {"none", "minor", "fatal"}, g \in SrvGraphs, s \in ss}
    \cup {[error |-> sev # "none", minor |-> sev = "minor", hasData |-> FALSE,
           data |-> <<>>, schemas |-> {}] : sev \in {"none", "minor", "fatal"}}
InitResponses == InitResponsesWith({SomeSchemas})
\* initOn without the early return on an error that is not minor
initInstallsOnError(r, resp) ==
    IF ~resp.hasData THEN Throws(r, resp, "DendronError")
    ELSE Replaces(r, resp, "error+data")
initOn(r, resp) ==
    IF resp.error /\ ~resp.minor
    THEN /\ pending' = pending \ {r}
         /\ last' = [Outcome(r, resp, "returned") EXCEPT !.ret = "error", !.got = <<resp>>]
         /\ UNCHANGED <<notes, noteFnames, fuse, schemas, fuseSchemas, nIssued, mv, dr, wsVars>>
    ELSE IF ~resp.hasData THEN Throws(r, resp, "DendronError")
    ELSE Replaces(r, resp, "error+data")
init == \E r \in Awaiting("init"), resp \in InitResponses : Quiet /\ initOn(r, resp)

\* ------------------------------------------------------------- bulkAddNotes
bulkAddNotesOn(r, resp) ==
    IF ~resp.hasData THEN Throws(r, resp, "TypeError")
    ELSE Refreshes(r, resp, resp.data, Event(Mutated(resp.data, resp.data)))
bulkAddNotes ==
    \E r \in Awaiting("bulkAddNotes") : \E resp \in Responses(SrvBulkAdd(notes)) :
        Quiet /\ bulkAddNotesOn(r, resp)

\* ------------------------------------------------------------- deleteNote
deleteNoteOn(r, resp) ==
    IF ~resp.hasData THEN Throws(r, resp, "DendronError")
    ELSE Refreshes(r, resp, resp.data, Event(Mutated(resp.data, resp.data)))
deleteNote ==
    \E r \in Awaiting("deleteNote") : \E resp \in Responses(SrvDelete(notes, r.id)) :
        Quiet /\ deleteNoteOn(r, resp)

\* ------------------------------------------------------------- getNoteByPath
getNoteByPathOn(r, resp) ==
    IF resp.hasData THEN Refreshes(r, resp, resp.data, NoEvent)
    ELSE Returns(r, resp, "resp")
\* the answers to getNoteByPath({npath, createIfNew: true, vault}): nothing
\* changed when a note is at npath in that vault, else the note created
SrvCreateIfNewFor(ns, r) ==
    IF r.arg = <<>> THEN SrvCreateIfNew(ns)
    ELSE LET c == r.arg[1]
             at == {i \in DOMAIN ns : ns[i].fname = c.fname /\ ns[i].vault = c.vault}
             n == Note(NextId(ns), c.fname, c.vault, "bar", <<>>)
         IN  IF at # {} \/ NextId(ns) \notin GenIds THEN {<<>>}
             ELSE {ParentAdd(ns, n) \o <<Create(n)>>}
getNoteByPath ==
    \E r \in Awaiting("getNoteByPath") : \E resp \in Responses(SrvCreateIfNewFor(notes, r)) :
        Quiet /\ getNoteByPathOn(r, resp)

\* ------------------------------------------------------------- renameNote
\* the batches the server can answer to engineRenameNote for request r
SrvRenameFor(ns, r) ==
    IF r.arg = <<>> THEN SrvRename(ns, r.id)
    ELSE {b \in SrvRename(ns, r.id) :
             /\ b[Len(b)].note.fname = r.arg[1].newLoc.fname
             /\ b[Len(b)].note.vault = r.arg[1].newLoc.vaultName}
renameNoteOn(r, resp) ==
    IF resp.error \/ ~resp.hasData
    THEN Throws(r, resp, IF resp.error THEN "resp.error" ELSE "undefined")
    ELSE Refreshes(r, resp, resp.data, Event(Mutated(resp.data, resp.data)))
renameNote ==
    \E r \in Awaiting("renameNote") : \E resp \in Responses(SrvRenameFor(notes, r)) :
        Quiet /\ renameNoteOn(r, resp)

\* ------------------------------------------------------------- updateNote
\* the answer to engineGetNoteByPath: the note at the fname and vault of the argument
NoteAt(ns, n) ==
    LET at == {i \in DOMAIN ns : ns[i].fname = n.fname /\ ns[i].vault = n.vault}
    IN  IF at = {} THEN <<>> ELSE <<ns[Min(at)]>>
updateNoteExisting ==
    \E r \in Awaiting("updateNote") :
        /\ Quiet
        /\ pending' = (pending \ {r}) \cup
                         {[r EXCEPT !.pc = "updating", !.existing = NoteAt(notes, r.arg[1])]}
        /\ last' = NoOutcome
        /\ UNCHANGED <<notes, noteFnames, fuse, schemas, fuseSchemas, nIssued, mv, dr, wsVars>>
\* a change entry that is a create whether or not a note was found
ChangeEntryAsCreate(existing, noteClean) == Create(noteClean)
\* the change entry updateNote builds from the note found and the note written
ChangeEntry(existing, noteClean) ==
    IF existing # <<>> THEN Update(noteClean, existing) ELSE Create(noteClean)
updateNoteOn(r, resp) ==
    IF ~resp.hasData THEN Throws(r, resp, "DendronError")
    ELSE LET ce == ChangeEntry(r.existing, r.arg[1])
         IN  Refreshes(r, resp, <<ce>>, Event(Mutated(<<ce>>, <<ce>>)))
updateNote ==
    \E r \in {x \in pending : x.op = "updateNote" /\ x.pc = "updating"},
       resp \in Responses({<<>>}) :
        Quiet /\ updateNoteOn(r, resp)

\* ------------------------------------------------------------- writeNote
\* writeNoteOn without the early return on resp.error
writeNoteNoErrorCheck(r, resp) ==
    IF ~resp.hasData
    THEN IF r.upd THEN Refreshes(r, resp, <<>>, NoEvent) ELSE Throws(r, resp, "TypeError")
    ELSE LET changed == IF r.upd THEN RejectDeletes(resp.data) ELSE resp.data
         IN  Refreshes(r, resp, changed, Event(Mutated(resp.data, changed)))
writeNoteOn(r, resp) ==
    IF resp.error THEN Returns(r, resp, "resp")
    ELSE IF ~resp.hasData
         THEN IF r.upd THEN Refreshes(r, resp, <<>>, NoEvent) ELSE Throws(r, resp, "TypeError")
         ELSE LET changed == IF r.upd THEN RejectDeletes(resp.data) ELSE resp.data
              IN  Refreshes(r, resp, changed, Event(Mutated(resp.data, changed)))
\* the answers to writeNote(note, {updateExisting: true}) for the note of a
\* doctor run: the note found at its fname and vault is updated, under the id
\* of the note written; no note found, the note is created
SrvWriteFor(ns, r) ==
    IF r.arg = <<>> THEN SrvWrite(ns, r.id)
    ELSE LET c == r.arg[1]
             at == NoteAt(ns, c)
         IN  IF at = <<>>
             THEN LET n == Note(c.id, c.fname, c.vault, "bar", <<>>)
                  IN  {ParentAdd(ns, n) \o <<Create(n)>>}
             ELSE LET old == at[1]
                      n == [old EXCEPT !.id = c.id]
                  IN  IF c.id = old.id
                      THEN {<<Update([n EXCEPT !.title = t], <<old>>)>> : t \in Titles}
                      ELSE {<<Update(n, <<old>>)>>, <<Delete(old), Update(n, <<old>>)>>}
writeNote ==
    \E r \in Awaiting("writeNote") : \E resp \in Responses(SrvWriteFor(notes, r)) :
        Quiet /\ writeNoteOn(r, resp)

\* ------------------------------------------------------------- refreshNotes
\* the batches a caller hands to refreshNotes
CallerBatches(ns) ==
    SrvCreateIfNew(ns) \cup
    UNION {SrvWrite(ns, i) \cup SrvDelete(ns, i) \cup SrvRename(ns, i) : i \in DOMAIN ns}
\* refreshNotes applies opts.notes as soon as it is called
refreshNotesOn(batch) ==
    LET r == [Req("refreshNotes", 0, FALSE, <<>>) EXCEPT !.hasData = TRUE]
        st == refreshNotesV2([notes |-> notes, fnames |-> noteFnames], batch)
    IN  /\ notes' = st.notes
        /\ noteFnames' = st.fnames
        /\ fuse' = UpdateNotesIndex(st.notes)
        /\ pending' = pending \cup {[r EXCEPT !.pc = "refreshed", !.batch = batch]}
        /\ nIssued' = nIssued + 1
        /\ last' = Outcome(r, r, "refreshed")
        /\ UNCHANGED <<schemas, fuseSchemas, mv, dr, wsVars>>
refreshNotes ==
    /\ nIssued < MaxOps
    /\ Quiet
    /\ pending = {}
    /\ \E batch \in CallerBatches(notes) : refreshNotesOn(batch)

\* ----------------------------------- the continuation after refreshNotesV2
\* the methods that fire _onNoteChangedEmitter once the refresh has returned
Fires(r) == r.op \in {"bulkAddNotes", "deleteNote", "renameNote", "updateNote", "writeNote"}
\* what the method returns once its refresh is done
ReturnValue(r) ==
    CASE r.op = "deleteNote" -> "data"
      [] r.op = "updateNote" -> "note"
      [] r.op = "refreshNotes" -> "error"
      [] OTHER -> "resp"
AfterRefreshOn(r) ==
    /\ pending' = pending \ {r}
    /\ last' = IF Fires(r)
               THEN [Outcome(r, r, "fired") EXCEPT !.event = r.payload, !.ret = ReturnValue(r)]
               ELSE [Outcome(r, r, "returned") EXCEPT !.ret = ReturnValue(r)]
    /\ UNCHANGED <<notes, noteFnames, fuse, schemas, fuseSchemas, nIssued, mv, dr, wsVars>>
AfterRefresh == \E r \in {x \in pending : x.pc = "refreshed"} : AfterRefreshOn(r)

\* ------------------------------------------------------ the specification
\* callers that wait for each call to return before making the next
CallOne == pending = {} /\ UNCHANGED <<mv, dr, wsVars>> /\ \E c \in CallArgs(notes) : Call(c)

Next ==
    \/ CallOne
    \/ init
    \/ bulkAddNotes
    \/ deleteNote
    \/ getNoteByPath
    \/ renameNote
    \/ updateNoteExisting
    \/ updateNote
    \/ writeNote
    \/ refreshNotes
    \/ AfterRefresh

Spec == Init /\ [][Next]_vars

\* --------------------------------------------- callers that do not wait
\* the client once init has loaded a graph; nIssued counts the calls made since
Loaded ==
    /\ notes \in SrvGraphs
    /\ noteFnames = FnBuild(notes)
    /\ fuse = UpdateNotesIndex(notes)
    /\ pending = {}
    /\ nIssued = 0
    /\ last = NoOutcome
    /\ mv = NotMoving
    /\ schemas = SomeSchemas
    /\ fuseSchemas = SomeSchemas
    /\ dr = NoDoctor
    /\ Elsewhere
\* writeNote, deleteNote and renameNote called for one note without waiting
\* for the earlier calls for that note
ConcArgs ==
    {[op |-> o, id |-> i, upd |-> FALSE, arg |-> <<>>] :
        o \in {"deleteNote", "renameNote"}, i \in Ids}
    \cup {[op |-> "writeNote", id |-> i, upd |-> u, arg |-> <<>>] : i \in Ids, u \in BOOLEAN}
CallConc ==
    /\ UNCHANGED <<mv, dr, wsVars>>
    /\ \E c \in ConcArgs :
          /\ \A r \in pending : r.id = c.id
          /\ Call(c)
NextConc ==
    \/ CallConc
    \/ deleteNote
    \/ renameNote
    \/ writeNote
    \/ AfterRefresh
SpecConc == Loaded /\ [][NextConc]_vars

\* ------------------------------------------------ MoveNoteCommand.moveNotes
MoveFnames == Fnames \cup {"A.C"}
toLowerCase == [f \in MoveFnames |-> IF f = "A.C" THEN "a.c" ELSE f]
Loc(f, v) == [fname |-> f, vaultName |-> v]
Move(old, new) == [oldLoc |-> old, newLoc |-> new]
isMoveNecessary(move) ==
    \/ move.oldLoc.vaultName # move.newLoc.vaultName
    \/ toLowerCase[move.oldLoc.fname] # toLowerCase[move.newLoc.fname]
\* getDesiredMoves: one note moved to any location, or several notes moved to
\* one vault under their own fnames
DesiredMoves(ns) ==
    {<<Move(Loc(ns[i].fname, ns[i].vault), Loc(f, v))>> :
        i \in DOMAIN ns, f \in MoveFnames, v \in Vaults}
    \cup {<<Move(Loc(ns[p[1]].fname, ns[p[1]].vault), Loc(ns[p[1]].fname, v)),
            Move(Loc(ns[p[2]].fname, ns[p[2]].vault), Loc(ns[p[2]].fname, v))>> :
            p \in {q \in (DOMAIN ns) \X (DOMAIN ns) : q[1] # q[2]}, v \in Vaults}
\* the id of the note at a location, 0 when there is none
IdAt(ns, loc) ==
    LET at == {i \in DOMAIN ns : ns[i].fname = loc.fname /\ ns[i].vault = loc.vaultName}
    IN  IF at = {} THEN 0 ELSE Min(at)
\* const necessaryMoves = moves.filter((move) => isMoveNecessary(move))
moveNotesStart ==
    /\ mv.pc = "idle"
    /\ Quiet
    /\ \E moves \in DesiredMoves(notes) :
          mv' = [pc |-> "loop", moves |-> SelectSeq(moves, isMoveNecessary),
                    idx |-> 1, req |-> 0, allChanges |-> <<>>]
    /\ UNCHANGED <<notes, noteFnames, fuse, schemas, fuseSchemas, pending, nIssued, last, dr, wsVars>>
\* the loop issues every move it has, whether or not the one before has returned
moveNotesIssueAll ==
    /\ mv.pc \in {"loop", "awaiting"}
    /\ mv.idx <= Len(mv.moves)
    /\ Call([op |-> "renameNote", id |-> IdAt(notes, mv.moves[mv.idx].oldLoc),
             upd |-> FALSE, arg |-> <<mv.moves[mv.idx]>>])
    /\ mv' = [mv EXCEPT !.pc = "awaiting", !.req = nIssued + 1, !.idx = @ + 1]
    /\ UNCHANGED <<dr, wsVars>>
\* const changes = await engine.renameNote(move): the call is made
moveNotesIssue ==
    /\ mv.pc = "loop"
    /\ mv.idx <= Len(mv.moves)
    /\ Call([op |-> "renameNote", id |-> IdAt(notes, mv.moves[mv.idx].oldLoc),
             upd |-> FALSE, arg |-> <<mv.moves[mv.idx]>>])
    /\ mv' = [mv EXCEPT !.pc = "awaiting", !.req = nIssued + 1]
    /\ UNCHANGED <<dr, wsVars>>
\* renameNote has returned: allChanges.push(...changes.data), on to the next move
moveNotesResume ==
    /\ mv.pc = "awaiting"
    /\ last.seq = mv.req
    /\ last.out = "fired"
    /\ mv' = [mv EXCEPT !.pc = "loop", !.idx = @ + 1,
                        !.allChanges = @ \o last.event.entries]
    /\ UNCHANGED <<notes, noteFnames, fuse, schemas, fuseSchemas, pending, nIssued, last, dr, wsVars>>
\* renameNote has thrown: moveNotes rejects, the moves left are not made
moveNotesThrows ==
    /\ mv.pc = "awaiting"
    /\ last.seq = mv.req
    /\ last.out = "threw"
    /\ mv' = [mv EXCEPT !.pc = "failed"]
    /\ UNCHANGED <<notes, noteFnames, fuse, schemas, fuseSchemas, pending, nIssued, last, dr, wsVars>>
\* return allChanges
moveNotesReturn ==
    /\ mv.pc = "loop"
    /\ mv.idx > Len(mv.moves)
    /\ mv' = [mv EXCEPT !.pc = "done"]
    /\ UNCHANGED <<notes, noteFnames, fuse, schemas, fuseSchemas, pending, nIssued, last, dr, wsVars>>
NextMove ==
    \/ moveNotesStart
    \/ moveNotesIssue
    \/ renameNote
    \/ AfterRefresh
    \/ moveNotesResume
    \/ moveNotesThrows
    \/ moveNotesReturn
SpecMove == Loaded /\ [][NextMove]_vars

\* ------------------------------------------------- sync and the schemas
syncOn(r, resp) ==
    IF ~resp.hasData THEN Throws(r, resp, "DendronError")
    ELSE Replaces(r, resp, "error+data")
sync ==
    \E r \in Awaiting("sync"), resp \in InitResponsesWith(SUBSET SchemaIds) :
        Quiet /\ syncOn(r, resp)
\* init of a workspace that holds any of the schema sets
initSchemas ==
    \E r \in Awaiting("init"), resp \in InitResponsesWith(SUBSET SchemaIds) :
        Quiet /\ initOn(r, resp)

\* what schemaDelete can answer for schema sid: the notes and the schemas that
\* are left, or an answer that lacks the data, the notes or the schemas
DeleteSchemaResponses(ns, ss, sid) ==
    {[error |-> e, hasData |-> d, hasNotes |-> d /\ n, hasSchemas |-> d /\ s,
      data |-> IF d /\ n THEN ns ELSE <<>>,
      schemas |-> IF d /\ s THEN ss \ {sid} ELSE {}] :
        e \in BOOLEAN, d \in BOOLEAN, n \in BOOLEAN, s \in BOOLEAN}
deleteSchemaOn(r, resp) ==
    IF ~resp.hasNotes \/ ~resp.hasSchemas
    THEN /\ schemas' = schemas \ {r.arg[1]}
         /\ pending' = pending \ {r}
         /\ last' = [Outcome(r, resp, "threw") EXCEPT !.thrown = "DendronError",
                                                       !.got = <<resp>>]
         /\ UNCHANGED <<notes, noteFnames, fuse, fuseSchemas, nIssued, mv, dr, wsVars>>
    ELSE Replaces(r, resp, "data")
deleteSchema ==
    \E r \in Awaiting("deleteSchema") :
        \E resp \in DeleteSchemaResponses(notes, schemas, r.arg[1]) :
            Quiet /\ deleteSchemaOn(r, resp)

\* refreshSchemas([schema]): the module is stored under the id of its root
refreshSchemas(ss, smods) == ss \cup smods
\* writeSchema once schemaWrite has answered
writeSchema ==
    \E r \in Awaiting("writeSchema") :
        /\ Quiet
        /\ schemas' = refreshSchemas(schemas, {r.arg[1]})
        /\ pending' = pending \ {r}
        /\ last' = [Outcome(r, [error |-> FALSE, hasData |-> FALSE], "returned")
                       EXCEPT !.ret = "void"]
        /\ UNCHANGED <<notes, noteFnames, fuse, fuseSchemas, nIssued, mv, dr, wsVars>>

\* the client once init has loaded a workspace with any of the schema sets
LoadedSchemas ==
    /\ notes \in SrvGraphs
    /\ noteFnames = FnBuild(notes)
    /\ fuse = UpdateNotesIndex(notes)
    /\ pending = {}
    /\ nIssued = 0
    /\ last = NoOutcome
    /\ mv = NotMoving
    /\ schemas \in SUBSET SchemaIds
    /\ fuseSchemas = schemas
    /\ dr = NoDoctor
    /\ Elsewhere
\* the calls of a caller that reloads the workspace and edits its schemas
SchemaArgs ==
    {[op |-> o, id |-> 0, upd |-> FALSE, arg |-> <<>>] : o \in {"init", "sync"}}
    \cup {[op |-> o, id |-> 0, upd |-> FALSE, arg |-> <<sid>>] :
            o \in {"deleteSchema", "writeSchema"}, sid \in SchemaIds}
CallSchema == pending = {} /\ UNCHANGED <<mv, dr, wsVars>> /\ \E c \in SchemaArgs : Call(c)
NextSchema ==
    \/ CallSchema
    \/ initSchemas
    \/ sync
    \/ deleteSchema
    \/ writeSchema
SpecSchema == LoadedSchemas /\ [][NextSchema]_vars

\* ------------------------------------ DoctorService.executeDoctorActions
\* the notes the loop goes through; fixAirtableMetadata is given vault v1 and
\* hierarchy "a", the prefix of every fname of the graphs
LoopNotes(action, ns, vaults) ==
    CASE action = "createMissingLinkedNotes" -> getBrokenLinkDestinations(ns, vaults)
      [] action = "fixAirtableMetadata" ->
            SelectSeq(ns, LAMBDA n : ~n.stub /\ n.vault = "v1" /\ n.airtableId)
      [] OTHER -> ns
\* the state of a run before its loop; the candidates are the objects the
\* caller handed over, without the stubs, which no run looks at:
\* notes.filter((n) => !n.stub)
Run(run, action, vaults, candidates, limit, dryRun, gen) ==
    [pc |-> "loop", run |-> run, action |-> action, vaults |-> vaults,
     candidates |-> SelectSeq(candidates, LAMBDA n : ~n.stub),
     limit |-> limit, dryRun |-> dryRun,
     notes |-> LoopNotes(action, SelectSeq(candidates, LAMBDA n : ~n.stub), vaults),
     idx |-> 1, numChanges |-> 0, resp |-> <<>>, req |-> 0, gen |-> gen]
\* no engine method is called in this step
NoEngineCall ==
    UNCHANGED <<notes, noteFnames, fuse, schemas, fuseSchemas, pending, nIssued, last, mv, wsVars>>
\* an engine method is called and awaited
EngineCall(c) ==
    /\ pending' = pending \cup {Req(c.op, c.id, c.upd, c.arg)}
    /\ nIssued' = nIssued + 1
    /\ last' = NoOutcome
    /\ UNCHANGED <<notes, noteFnames, fuse, schemas, fuseSchemas, mv, wsVars>>
executeDoctorActions ==
    /\ dr.pc = "idle"
    /\ pending = {}
    /\ \E action \in DoctorActions, limit \in {0, 1, DefaultLimit}, dryRun \in BOOLEAN :
          \E vaults \in {w \in WsVaults : \A i \in DOMAIN notes : notes[i].vault \in Range(w)} :
             \E candidates \in CandidateLists(notes, action) :
                dr' = Run("first", action, vaults, candidates, limit, dryRun, 0)
    /\ NoEngineCall
\* the caller runs the action once more, with the options and the candidates
\* of the first run
executeDoctorActionsAgain ==
    /\ dr.pc = "done"
    /\ dr.run = "first"
    /\ dr' = Run("second", dr.action, dr.vaults, dr.candidates, dr.limit, dr.dryRun, dr.gen)
    /\ NoEngineCall

\* for (const note of notes) { if (numChanges >= limit) break; ... }
Looping(action) ==
    /\ dr.pc = "loop"
    /\ dr.action = action
    /\ dr.idx <= Len(dr.notes)
    /\ dr.numChanges < dr.limit
Current == dr.notes[dr.idx]
\* the note of this iteration assigned to: it is an object of the candidates
Stored(n) ==
    [dr EXCEPT !.notes[dr.idx] = n,
               !.candidates = [k \in DOMAIN @ |-> IF @[k] = Current THEN n ELSE @[k]]]
\* the iteration ends without a change / with a change that called no engine method
Skips(d) == dr' = [d EXCEPT !.idx = @ + 1] /\ NoEngineCall
DryRuns(d) == dr' = [d EXCEPT !.idx = @ + 1, !.numChanges = @ + 1] /\ NoEngineCall
\* the iteration awaits the engine method
Awaits(d, c) == dr' = [d EXCEPT !.pc = "awaiting", !.req = nIssued + 1] /\ EngineCall(c)
WriteCall(n) == [op |-> "writeNote", id |-> n.id, upd |-> TRUE, arg |-> <<n>>]

\* H1_TO_TITLE and HI_TO_H2: conv is what the remark plugin makes of the body
HeaderAction(action, conv) ==
    /\ Looping(action)
    /\ LET n == [Current EXCEPT !.body = conv[@]]
       IN  IF conv[Current.body] = Current.body THEN Skips(Stored(n))
           ELSE IF dr.dryRun THEN DryRuns(Stored(n))
           ELSE Awaits(Stored(n), WriteCall(n))
h1ToTitle == HeaderAction("h1ToTitle", H1ToTitle)
h1ToH2 == HeaderAction("h1ToH2", H1ToH2)
\* REMOVE_STUBS: engineDelete is handed the note
removeStubs ==
    /\ Looping("removeStubs")
    /\ IF Current.body # "" THEN Skips(dr)
       ELSE IF dr.dryRun THEN DryRuns(dr)
       ELSE Awaits(dr, [op |-> "deleteNote", id |-> Current.id, upd |-> FALSE, arg |-> <<>>])
createMissingLinkedNotes ==
    /\ Looping("createMissingLinkedNotes")
    /\ IF dr.dryRun THEN DryRuns(dr)
       ELSE Awaits(dr, [op |-> "getNoteByPath", id |-> 0, upd |-> FALSE, arg |-> <<Current>>])
genUUID == MaxId + dr.gen + 1
\* regenerateNoteId without the return for the root note
regenerateNoteIdOfRoot ==
    /\ Looping("regenerateNoteId")
    /\ dr.gen < MaxGen
    /\ LET n == [Current EXCEPT !.id = genUUID]
       IN  Awaits([Stored(n) EXCEPT !.gen = @ + 1], WriteCall(n))
\* REGENERATE_NOTE_ID: engine.writeNote is called whether or not the run is dry
regenerateNoteId ==
    /\ Looping("regenerateNoteId")
    /\ IF Current.id = RootId THEN Skips(dr)
       ELSE /\ dr.gen < MaxGen
            /\ LET n == [Current EXCEPT !.id = genUUID]
               IN  Awaits([Stored(n) EXCEPT !.gen = @ + 1], WriteCall(n))
\* FIND_BROKEN_LINKS: the report gains the note when it has broken links
findBrokenLinksAction ==
    /\ Looping("findBrokenLinks")
    /\ LET brokenLinks == findBrokenLinks(Current, dr.notes, dr.vaults)
       IN  IF Len(brokenLinks) > 0
           THEN Skips([dr EXCEPT !.resp = Append(@, [file |-> Current.fname,
                                                     vault |-> Current.vault,
                                                     links |-> brokenLinks])])
           ELSE Skips(dr)
\* FIX_AIRTABLE_METADATA: the id moves under custom.pods; engine.writeNote is
\* called whether or not the run is dry
fixAirtableMetadata ==
    /\ Looping("fixAirtableMetadata")
    /\ LET n == [Current EXCEPT !.airtableId = FALSE]
       IN  Awaits(Stored(n), WriteCall(n))
\* the awaited engine method has returned
doctorResume ==
    /\ dr.pc = "awaiting"
    /\ last.seq = dr.req
    /\ last.out \in {"fired", "returned"}
    /\ dr' = [dr EXCEPT !.pc = "loop", !.idx = @ + 1,
                        !.numChanges = IF dr.action = "fixAirtableMetadata" THEN @ ELSE @ + 1]
    /\ NoEngineCall
\* the awaited engine method has thrown: executeDoctorActions rejects
doctorThrows ==
    /\ dr.pc = "awaiting"
    /\ last.seq = dr.req
    /\ last.out = "threw"
    /\ dr' = [dr EXCEPT !.pc = "failed"]
    /\ NoEngineCall
\* the loop is left: return {exit, resp}
doctorReturns ==
    /\ dr.pc = "loop"
    /\ dr.idx > Len(dr.notes) \/ dr.numChanges >= dr.limit
    /\ dr' = [dr EXCEPT !.pc = "done"]
    /\ NoEngineCall

\* the client once init has loaded one of the workspaces of the doctor runs
LoadedDoctor ==
    /\ notes \in DoctorGraphs
    /\ noteFnames = FnBuild(notes)
    /\ fuse = UpdateNotesIndex(notes)
    /\ pending = {}
    /\ nIssued = 0
    /\ last = NoOutcome
    /\ mv = NotMoving
    /\ schemas = SomeSchemas
    /\ fuseSchemas = SomeSchemas
    /\ dr = NoDoctor
    /\ Elsewhere
NextDoctor ==
    \/ executeDoctorActions
    \/ executeDoctorActionsAgain
    \/ h1ToTitle
    \/ h1ToH2
    \/ removeStubs
    \/ createMissingLinkedNotes
    \/ regenerateNoteId
    \/ findBrokenLinksAction
    \/ fixAirtableMetadata
    \/ doctorResume
    \/ doctorThrows
    \/ doctorReturns
    \/ writeNote
    \/ deleteNote
    \/ getNoteByPath
    \/ AfterRefresh
SpecDoctor == LoadedDoctor /\ [][NextDoctor]_vars

\* ------------------------------------- links, anchors and backlinks of notes
\* (EngineUtils.refreshNoteLinksAndAnchors, engine-server/src/utils)
\* a note body is a sequence of tokens: a wiki link [[word]], the plain text
\* word, or a block anchor; body.length is the number of its tokens
Token(kind, word) == [kind |-> kind, word |-> word]
\* what a user types into beta.md: a link to alpha, the title of alpha as
\* plain text, a link to a note that does not exist, a block anchor
Tokens == {Token("wiki", "alpha"), Token("text", "alpha"),
           Token("wiki", "gamma"), Token("anchor", "^a")}
\* engine.getLinks: the links of the type asked for, in the order of the body,
\* each with its position; a candidate is a plain-text occurrence of the fname
\* of another note that exists
getLinks(from, body, type, fnames) ==
    LET at == [k \in 1..Len(body) |->
                  [type |-> IF body[k].kind = "wiki" THEN "wiki" ELSE "linkCandidate",
                   from |-> from, to |-> [fname |-> body[k].word, vaultName |-> ""],
                   position |-> k, kind |-> body[k].kind]]
        found == SelectSeq(at, LAMBDA l :
                     IF type = "regular" THEN l.kind = "wiki"
                     ELSE l.kind = "text" /\ l.to.fname \in fnames \ {from})
    IN  [k \in 1..Len(found) |->
            [type |-> found[k].type, from |-> found[k].from, to |-> found[k].to,
             position |-> found[k].position]]
\* engine.getAnchors: the positions of the block anchors
getAnchors(body) ==
    LET at == [k \in 1..Len(body) |-> k]
    IN  SelectSeq(at, LAMBDA k : body[k].kind = "anchor")
\* the backlinks of target: one group per source note holding a link whose
\* target is the note, with its linked refs and its candidate refs
computeBacklinksPerLink(target, ns) ==
    LET RECURSIVE groups(_)
        groups(srcs) ==
            IF srcs = <<>> THEN <<>>
            ELSE LET refs == SelectSeq(ns[Head(srcs)].links, LAMBDA l : l.to.fname = target)
                 IN  [k \in 1..Len(refs) |->
                         [source |-> Head(srcs),
                          linked |-> SelectSeq(<<refs[k]>>, LAMBDA l : l.type = "wiki"),
                          candidates |-> SelectSeq(<<refs[k]>>, LAMBDA l : l.type = "linkCandidate")]]
                     \o groups(Tail(srcs))
    IN  IF target \in DOMAIN ns THEN groups(<<"alpha", "beta", "delta">>) ELSE <<>>
computeBacklinks(target, ns) ==
    LET RECURSIVE groups(_)
        groups(srcs) ==
            IF srcs = <<>> THEN <<>>
            ELSE LET refs == SelectSeq(ns[Head(srcs)].links, LAMBDA l : l.to.fname = target)
                 IN  (IF refs = <<>> THEN <<>>
                      ELSE <<[source |-> Head(srcs),
                              linked |-> SelectSeq(refs, LAMBDA l : l.type = "wiki"),
                              candidates |-> SelectSeq(refs, LAMBDA l : l.type = "linkCandidate")]>>)
                     \o groups(Tail(srcs))
    IN  IF target \in DOMAIN ns THEN groups(<<"alpha", "beta", "delta">>) ELSE <<>>
\* the body is shorter than workspace.maxNoteLength, or than the default
\* when that is not set (0)
anyNoteLength(note, maxNoteLength) == TRUE
withinMaxNoteLength(note, maxNoteLength) ==
    Len(note.body) < (IF maxNoteLength # 0 THEN maxNoteLength ELSE DefaultMaxNoteLength)
\* dev.enableLinkCandidates of the config
candidatesAlways(config) == TRUE
linkCandidatesEnabled(config) == config.enableLinkCandidates
\* the step taken on the notes: the method, the note it was given, how it ended
LinkStep(op, f, out) == [op |-> op, note |-> f, out |-> out]
\* the workspace of the backlink tests after init: alpha is linked from delta,
\* beta is empty, link candidates are off and maxNoteLength is not set (0)
LoadedLinks ==
    /\ lnk = [notes |-> [f \in {"alpha", "beta", "delta"} |->
                            LET body == IF f = "delta" THEN <<Token("wiki", "alpha")>>
                                        ELSE <<>>
                            IN  [body |-> body,
                                 links |-> getLinks(f, body, "regular", {"alpha", "beta", "delta"}),
                                 anchors |-> getAnchors(body)]],
              enableLinkCandidates |-> FALSE, maxNoteLength |-> 0,
              did |-> LinkStep("init", "", "returned")]
    /\ disk = <<>>
    /\ git = <<>>
    /\ notes = <<>>
    /\ noteFnames = NoFnames
    /\ fuse = {}
    /\ pending = {}
    /\ nIssued = 0
    /\ last = NoOutcome
    /\ mv = NotMoving
    /\ schemas = {}
    /\ fuseSchemas = {}
    /\ dr = NoDoctor
    /\ conf = <<>>
    /\ fw = <<>>
\* nothing but the notes, their links and the config changes
OnlyLinks ==
    UNCHANGED <<notes, noteFnames, fuse, pending, nIssued, last, mv, schemas,
                fuseSchemas, dr, disk, git, conf, fw>>
\* the body of beta is edited: a token is typed at its end or its last token
\* is removed; links and anchors are those of the last refresh
editNote ==
    /\ \E body \in {Append(lnk.notes["beta"].body, t) : t \in Tokens}
                   \cup {SubSeq(lnk.notes["beta"].body, 1, Len(lnk.notes["beta"].body) - 1)} :
          /\ Len(body) <= MaxBody
          /\ body # lnk.notes["beta"].body
          /\ lnk' = [lnk EXCEPT !.notes["beta"].body = body,
                                !.did = LinkStep("editNote", "beta", "returned")]
    /\ OnlyLinks
\* dendron.yml is changed: dev.enableLinkCandidates is switched, or
\* workspace.maxNoteLength is set or unset
setConfig ==
    /\ \E flag \in BOOLEAN, max \in {0, MaxBody} :
          /\ <<flag, max>> # <<lnk.enableLinkCandidates, lnk.maxNoteLength>>
          /\ lnk' = [lnk EXCEPT !.enableLinkCandidates = flag, !.maxNoteLength = max,
                                !.did = LinkStep("setConfig", "", "returned")]
    /\ OnlyLinks
\* EngineUtils.refreshNoteLinksAndAnchors on note f; each engine answer comes
\* with its data (<<data>>) or without (<<>>)
refreshNoteLinksAndAnchors ==
    /\ \E f \in DOMAIN lnk.notes :
       LET note == lnk.notes[f]
           maxNoteLength == lnk.maxNoteLength
       IN  \E links \in {<<>>, <<getLinks(f, note.body, "regular", DOMAIN lnk.notes)>>},
              anchors \in {<<>>, <<getAnchors(note.body)>>},
              linkCandidates \in {<<>>, <<getLinks(f, note.body, "candidate", DOMAIN lnk.notes)>>} :
           IF withinMaxNoteLength(note, maxNoteLength)
           THEN IF anchors = <<>> \/ links = <<>>
                THEN lnk' = [lnk EXCEPT !.did = LinkStep("refresh", f, "DendronError")]
                ELSE IF linkCandidatesEnabled(lnk)
                THEN IF linkCandidates = <<>>
                     THEN lnk' = [lnk EXCEPT !.notes[f].links = links[1],
                                             !.notes[f].anchors = anchors[1],
                                             !.did = LinkStep("refresh", f, "DendronError")]
                     ELSE lnk' = [lnk EXCEPT !.notes[f].links = links[1] \o linkCandidates[1],
                                             !.notes[f].anchors = anchors[1],
                                             !.did = LinkStep("refresh", f, "returned")]
                ELSE lnk' = [lnk EXCEPT !.notes[f].links = links[1],
                                        !.notes[f].anchors = anchors[1],
                                        !.did = LinkStep("refresh", f, "returned")]
           ELSE lnk' = [lnk EXCEPT !.did = LinkStep("refresh", f, "returned")]
    /\ OnlyLinks
NextLinks ==
    \/ editNote
    \/ setConfig
    \/ refreshNoteLinksAndAnchors
SpecLinks == LoadedLinks /\ [][NextLinks]_vars

\* --------------------------------------- port files and vault caches on disk
\* (engine-server/src/utils, WorkspaceService.writePort and removeVaultCaches)
\* disk.files maps the path of every file that exists to its content
\* path.join
join(dir, name) == dir \o "/" \o name
\* EngineUtils.getPortFilePathForTarget
getPortFilePathForAnyTarget(wsRoot, target) == join(wsRoot, ".dendron.port")
getPortFilePathForTarget(wsRoot, target) ==
    join(wsRoot, ".dendron.port") \o (IF target = "cli" THEN ".cli" ELSE "")
\* EngineUtils.getPortFilePath: a RespV3 with the path found or a 404 error
getPortFilePath(files, wsRoot) ==
    IF getPortFilePathForTarget(wsRoot, "workspace") \in DOMAIN files
    THEN [data |-> <<getPortFilePathForTarget(wsRoot, "workspace")>>, error |-> "none"]
    ELSE IF getPortFilePathForTarget(wsRoot, "cli") \in DOMAIN files
    THEN [data |-> <<getPortFilePathForTarget(wsRoot, "cli")>>, error |-> "none"]
    ELSE [data |-> <<>>, error |-> "404"]
\* _.toString of a port: its decimal digits
RECURSIVE toString(_)
toString(n) == IF n < 10 THEN <<n>> ELSE toString(n \div 10) \o <<n % 10>>
\* openPortFile: _.toInteger of the text of the file (no writer leaves white
\* space for _.trim to remove); "ENOENT" when readFileSync finds no file
openPortFile(files, fpath) ==
    LET RECURSIVE toInteger(_)
        toInteger(s) == IF s = <<>> THEN 0
                        ELSE 10 * toInteger(SubSeq(s, 1, Len(s) - 1)) + s[Len(s)]
    IN  IF fpath \in DOMAIN files THEN toInteger(files[fpath]) ELSE "ENOENT"
\* EngineUtils.getEnginePort: the 404 response, or the port of the file found
getEnginePort(files, wsRoot) ==
    LET resp == getPortFilePath(files, wsRoot)
    IN  IF resp.error # "none" THEN resp
        ELSE [data |-> <<openPortFile(files, resp.data[1])>>, error |-> "none"]
\* EngineUtils.getEnginePortForCLI
getEnginePortForCLI(files, wsRoot) ==
    openPortFile(files, getPortFilePathForTarget(wsRoot, "cli"))
\* the text of a note file: a title in the frontmatter and a body
\* the content hash of a note file: a code of its title and its body
Hash(content) ==
    (IF content.title = "bar" THEN 1 ELSE 2) * 10 + (IF content.body = "" THEN 1 ELSE 2)
\* readNotesFromCache; the cache holds an entry for a.md (<<entry>>) or none
readNotesFromCache(files, vpath) ==
    IF join(vpath, ".dendron.cache.json") \in DOMAIN files
    THEN files[join(vpath, ".dendron.cache.json")]
    ELSE [version |-> 0, entry |-> <<>>]
\* createCacheEntry: the note without its body, and the hash
createCacheEntry(noteProps, hash) ==
    [data |-> [fname |-> noteProps.fname, title |-> noteProps.title], hash |-> hash]
\* the load of a vault: the note of a.md is taken from the cache entry when
\* the hash of the file equals the hash of the entry, and parsed otherwise
loadNoteFromCache(files, vpath) ==
    LET content == files[join(vpath, "a.md")]
        cache == readNotesFromCache(files, vpath)
    IN  IF cache.entry # <<>>
        THEN [fname |-> cache.entry[1].data.fname, title |-> cache.entry[1].data.title,
              body |-> content.body]
        ELSE [fname |-> "a", title |-> content.title, body |-> content.body]
loadNote(files, vpath) ==
    LET content == files[join(vpath, "a.md")]
        cache == readNotesFromCache(files, vpath)
    IN  IF cache.entry # <<>> /\ cache.entry[1].hash = Hash(content)
        THEN [fname |-> cache.entry[1].data.fname, title |-> cache.entry[1].data.title,
              body |-> content.body]
        ELSE [fname |-> "a", title |-> content.title, body |-> content.body]
\* the files a step leaves behind and what it was: the method and its argument
Disk(files, op, arg) == [files |-> files, did |-> [op |-> op, arg |-> arg]]
\* a workspace of two vaults with one note each, no cache and no engine started
LoadedDisk ==
    /\ disk = Disk([p \in {join(join("ws", v), "a.md") : v \in Vaults} |->
                       [title |-> "bar", body |-> ""]], "init", "")
    /\ lnk = <<>>
    /\ git = <<>>
    /\ notes = <<>>
    /\ noteFnames = NoFnames
    /\ fuse = {}
    /\ pending = {}
    /\ nIssued = 0
    /\ last = NoOutcome
    /\ mv = NotMoving
    /\ schemas = {}
    /\ fuseSchemas = {}
    /\ dr = NoDoctor
    /\ conf = <<>>
    /\ fw = <<>>
\* nothing but the files changes
OnlyDisk ==
    UNCHANGED <<notes, noteFnames, fuse, pending, nIssued, last, mv, schemas,
                fuseSchemas, dr, lnk, git, conf, fw>>
\* fs.writeFileSync and fs.writeJSONSync
writeFile(files, fpath, content) ==
    [p \in DOMAIN files \cup {fpath} |-> IF p = fpath THEN content ELSE files[p]]
\* fs.remove of the cache files of the vaults given, where they exist
removeCaches(files, vpaths) ==
    [p \in DOMAIN files \ {join(vpath, ".dendron.cache.json") : vpath \in vpaths} |-> files[p]]
\* WorkspaceService.writePort
writePort ==
    /\ \E port \in {80, 3005} :
          disk' = Disk(writeFile(disk.files, getPortFilePathForTarget("ws", "workspace"),
                                 toString(port)), "writePort", port)
    /\ OnlyDisk
\* EngineUtils.writeEnginePortForCLI
writeEnginePortForCLI ==
    /\ \E port \in {80, 3005} :
          disk' = Disk(writeFile(disk.files, getPortFilePathForTarget("ws", "cli"),
                                 toString(port)), "writeEnginePortForCLI", port)
    /\ OnlyDisk
\* a note file is saved with another title or another body
editFile ==
    /\ \E v \in Vaults, title \in Titles, body \in {"", "text"} :
          /\ disk.files[join(join("ws", v), "a.md")] # [title |-> title, body |-> body]
          /\ disk' = Disk(writeFile(disk.files, join(join("ws", v), "a.md"),
                                    [title |-> title, body |-> body]), "editFile", v)
    /\ OnlyDisk
\* a vault is loaded and its cache rewritten (writeNotesToCache) with the
\* entry of the note the load obtained
loadVault ==
    /\ \E v \in Vaults :
          LET vpath == join("ws", v)
              cache == [version |-> 1,
                        entry |-> <<createCacheEntry(loadNote(disk.files, vpath),
                                                     Hash(disk.files[join(vpath, "a.md")]))>>]
          IN  disk' = Disk(writeFile(disk.files, join(vpath, ".dendron.cache.json"), cache),
                           "loadVault", v)
    /\ OnlyDisk
\* removeCache of one vault
removeCache ==
    /\ \E v \in Vaults : disk' = Disk(removeCaches(disk.files, {join("ws", v)}), "removeCache", v)
    /\ OnlyDisk
\* WorkspaceService.removeVaultCaches
removeVaultCaches ==
    /\ disk' = Disk(removeCaches(disk.files, {join("ws", v) : v \in Vaults}),
                    "removeVaultCaches", "")
    /\ OnlyDisk
NextDisk ==
    \/ writePort
    \/ writeEnginePortForCLI
    \/ editFile
    \/ loadVault
    \/ removeCache
    \/ removeVaultCaches
SpecDisk == LoadedDisk /\ [][NextDisk]_vars

\* ------------------------------------------- vault sync: commit, pull, push
\* (WorkspaceService.shouldVaultsSync, commitAndAddAll, pullVaults, pushVaults)
\* a vault is given by its sync mode: one of DVaultSync, or "" when not set
\* the first sync mode set, whether or not a later vault sets another one
verifyFirstVaultSyncConfig(vaults) ==
    [threw |-> FALSE,
     sync |-> IF \A k \in DOMAIN vaults : vaults[k] = "" THEN ""
              ELSE vaults[CHOOSE k \in DOMAIN vaults :
                              vaults[k] # "" /\ \A j \in 1..(k - 1) : vaults[j] = ""]]
\* WorkspaceService.verifyVaultSyncConfigs: the mode the vaults agree on
\* ("" for undefined), or a thrown error
verifyVaultSyncConfigs(vaults) ==
    LET RECURSIVE loop(_, _)
        loop(k, prevVault) ==
            IF k > Len(vaults) THEN [threw |-> FALSE, sync |-> prevVault]
            ELSE IF vaults[k] = "" THEN loop(k + 1, prevVault)
            ELSE IF prevVault = "" THEN loop(k + 1, vaults[k])
            ELSE IF prevVault = vaults[k] THEN loop(k + 1, prevVault)
            ELSE [threw |-> TRUE, sync |-> ""]
    IN  loop(1, "")
\* WorkspaceService.shouldVaultsSync
shouldVaultsSyncAlways(command, vaults, isWorkspaceVault, workspaceVaultSyncMode) ==
    [threw |-> FALSE, value |-> TRUE]
shouldVaultsSync(command, vaults, isWorkspaceVault, workspaceVaultSyncMode) ==
    LET verified == verifyVaultSyncConfigs(vaults)
        workspaceVaultSyncConfig ==
            IF verified.sync # "" THEN verified.sync
            ELSE IF isWorkspaceVault
            THEN (IF workspaceVaultSyncMode # "" THEN workspaceVaultSyncMode ELSE "noCommit")
            ELSE "sync"
    IN  IF verified.threw THEN [threw |-> TRUE, value |-> FALSE]
        ELSE [threw |-> FALSE,
              value |-> IF workspaceVaultSyncConfig = "skip" THEN FALSE
                        ELSE IF workspaceVaultSyncConfig = "sync" THEN TRUE
                        ELSE IF workspaceVaultSyncConfig = "noCommit" /\ command = "commit" THEN FALSE
                        ELSE IF workspaceVaultSyncConfig = "noPush" /\ command = "push" THEN FALSE
                        ELSE TRUE]
\* the questions a sync method asks of a repository, and of the user
GitChecks ==
    {"hasRemote", "hasMergeConflicts", "hasRebaseInProgress", "getUpstream",
     "hasAccessToRemote", "hasChanges", "hasPushableChanges", "hasPushableRemote",
     "canPushVault"}
\* the callback of one repository before it has started
NoTask == [pc |-> "idle", status |-> "", reset |-> FALSE, applies |-> 0, pushes |-> 0,
           commits |-> 0]
\* the state of a run: the method, the vaults of each repository, the
\* callbacks, what the caller of the method has got, and the step just taken
\* with the answers it was given
Sync(cmd, config, tasks, out, did) ==
    [cmd |-> cmd, config |-> config, tasks |-> tasks, out |-> out, did |-> did]
\* two repositories: r1 is the workspace root, with one vault or two; r2
\* holds one vault without a sync mode
LoadedSync ==
    /\ git \in {Sync("none", [r \in {"r1", "r2"} |-> IF r = "r1" THEN vs ELSE <<"">>],
                     [r \in {"r1", "r2"} |-> NoTask], [state |-> "none", results |-> <<>>],
                     [op |-> "init", repo |-> "", answers |-> <<>>]) :
                vs \in {<<"">>, <<"skip">>, <<"", "noPush">>, <<"sync", "noCommit">>}}
    /\ lnk = <<>>
    /\ disk = <<>>
    /\ notes = <<>>
    /\ noteFnames = NoFnames
    /\ fuse = {}
    /\ pending = {}
    /\ nIssued = 0
    /\ last = NoOutcome
    /\ mv = NotMoving
    /\ schemas = {}
    /\ fuseSchemas = {}
    /\ dr = NoDoctor
    /\ conf = <<>>
    /\ fw = <<>>
\* nothing but the repositories and the run changes
OnlySync ==
    UNCHANGED <<notes, noteFnames, fuse, pending, nIssued, last, mv, schemas,
                fuseSchemas, dr, lnk, disk, conf, fw>>
\* commitAndAddAll, pullVaults or pushVaults is called: one callback per
\* repository starts
startSync ==
    /\ git.cmd = "none"
    /\ \E cmd \in {"commit", "pull", "push"} :
          git' = Sync(cmd, git.config, [r \in DOMAIN git.tasks |-> [NoTask EXCEPT !.pc = "start"]],
                      [state |-> "pending", results |-> <<>>],
                      [op |-> "start", repo |-> "", answers |-> <<>>])
    /\ OnlySync
\* the callback of repository r ends with the status given ("thrown" when it
\* throws) after the step op, which was given the answers a
Ended(r, task, status, op, a) ==
    git' = [git EXCEPT !.tasks[r] = [task EXCEPT !.pc = "done", !.status = status],
                       !.did = [op |-> op, repo |-> r, answers |-> a]]
\* the callback of commitAndAddAll for one repository
commitAndAddAll ==
    /\ git.cmd = "commit"
    /\ \E r \in DOMAIN git.tasks,
          a \in [{"hasMergeConflicts", "hasRebaseInProgress", "hasChanges"} -> BOOLEAN] :
          LET task == git.tasks[r]
              should == shouldVaultsSync("commit", git.config[r], r = "r1", "")
          IN  /\ task.pc = "start"
              /\ IF should.threw THEN Ended(r, task, "thrown", "commit", a)
                 ELSE IF ~should.value THEN Ended(r, task, "SKIP_CONFIG", "commit", a)
                 ELSE IF a["hasMergeConflicts"] THEN Ended(r, task, "MERGE_CONFLICT", "commit", a)
                 ELSE IF a["hasRebaseInProgress"] THEN Ended(r, task, "REBASE_IN_PROGRESS", "commit", a)
                 ELSE IF ~a["hasChanges"] THEN Ended(r, task, "NO_CHANGES", "commit", a)
                 ELSE \E committed \in BOOLEAN :
                          IF committed
                          THEN Ended(r, [task EXCEPT !.commits = @ + 1], "DONE", "commit", a)
                          ELSE Ended(r, task, "thrown", "commit", a)
    /\ OnlySync
\* the callback of pullVaults for one repository, up to git.pull: the checks,
\* then stashCreate and reset("hard") if there are tracked changes
pullVaultsStash ==
    /\ git.cmd = "pull"
    /\ \E r \in DOMAIN git.tasks, stashed \in BOOLEAN,
          a \in [{"hasRemote", "hasMergeConflicts", "hasRebaseInProgress", "getUpstream",
                  "hasAccessToRemote", "hasChanges"} -> BOOLEAN] :
          LET task == git.tasks[r]
              should == shouldVaultsSync("pull", git.config[r], r = "r1", "")
          IN  /\ task.pc = "start"
              /\ IF ~a["hasRemote"] THEN Ended(r, task, "NO_REMOTE", "pullStash", a)
                 ELSE IF a["hasMergeConflicts"] THEN Ended(r, task, "MERGE_CONFLICT", "pullStash", a)
                 ELSE IF a["hasRebaseInProgress"] THEN Ended(r, task, "REBASE_IN_PROGRESS", "pullStash", a)
                 ELSE IF ~a["getUpstream"] THEN Ended(r, task, "NO_UPSTREAM", "pullStash", a)
                 ELSE IF ~a["hasAccessToRemote"] THEN Ended(r, task, "BAD_REMOTE", "pullStash", a)
                 ELSE IF should.threw THEN Ended(r, task, "thrown", "pullStash", a)
                 ELSE IF ~should.value THEN Ended(r, task, "SKIP_CONFIG", "pullStash", a)
                 ELSE IF a["hasChanges"] /\ ~stashed THEN Ended(r, task, "CANT_STASH", "pullStash", a)
                 ELSE git' = [git EXCEPT !.tasks[r] = [task EXCEPT !.pc = "pull",
                                                                   !.reset = a["hasChanges"]],
                                         !.did = [op |-> "pullStash", repo |-> r, answers |-> a]]
    /\ OnlySync
\* the finally block of pullVaults applies the stash when the variable
\* stashed still holds it
finallyKeeps(stashed) == FALSE
finallyApplies(stashed) == stashed
\* the callback of pullVaults for one repository from git.pull on; pulled is
\* how git.pull went, a holds whether stashApplyCommit restored the changes
\* and whether a merge conflict or a rebase was found after a failed pull
pullVaultsPull ==
    /\ git.cmd = "pull"
    /\ \E r \in DOMAIN git.tasks, pulled \in BOOLEAN,
          a \in [{"stashApplyCommit", "hasMergeConflicts"} -> BOOLEAN] :
          LET task == git.tasks[r]
              applied == [task EXCEPT !.applies = @ + 1]
              after(stashed) == IF finallyApplies(stashed) THEN applied ELSE task
          IN  /\ task.pc = "pull"
              /\ IF pulled
                 THEN IF task.reset
                      THEN Ended(r, applied,
                                 IF a["stashApplyCommit"] THEN "DONE"
                                 ELSE "MERGE_CONFLICT_AFTER_RESTORE", "pull", a)
                      ELSE Ended(r, task, "DONE", "pull", a)
                 ELSE IF a["hasMergeConflicts"]
                 THEN IF task.reset
                      THEN Ended(r, after(TRUE), "MERGE_CONFLICT_LOSES_CHANGES", "pull", a)
                      ELSE Ended(r, after(FALSE), "MERGE_CONFLICT_AFTER_PULL", "pull", a)
                 ELSE Ended(r, after(task.reset), "thrown", "pull", a)
    /\ OnlySync
\* the callback of pushVaults for one repository
pushVaults ==
    /\ git.cmd = "push"
    /\ \E r \in DOMAIN git.tasks, a \in [GitChecks \ {"hasChanges"} -> BOOLEAN] :
          LET task == git.tasks[r]
              should == shouldVaultsSync("push", git.config[r], r = "r1", "")
          IN  /\ task.pc = "start"
              /\ IF should.threw THEN Ended(r, task, "thrown", "push", a)
                 ELSE IF ~should.value THEN Ended(r, task, "SKIP_CONFIG", "push", a)
                 ELSE IF ~a["hasRemote"] THEN Ended(r, task, "NO_REMOTE", "push", a)
                 ELSE IF a["hasMergeConflicts"] THEN Ended(r, task, "MERGE_CONFLICT", "push", a)
                 ELSE IF a["hasRebaseInProgress"] THEN Ended(r, task, "REBASE_IN_PROGRESS", "push", a)
                 ELSE IF ~a["getUpstream"] THEN Ended(r, task, "NO_UPSTREAM", "push", a)
                 ELSE IF ~a["hasAccessToRemote"] THEN Ended(r, task, "BAD_REMOTE", "push", a)
                 ELSE IF ~a["hasPushableChanges"] THEN Ended(r, task, "NO_CHANGES", "push", a)
                 ELSE IF ~a["hasPushableRemote"] THEN Ended(r, task, "UNPULLED_CHANGES", "push", a)
                 ELSE IF ~a["canPushVault"] THEN Ended(r, task, "NOT_PERMITTED", "push", a)
                 ELSE \E pushed \in BOOLEAN :
                          Ended(r, [task EXCEPT !.pushes = @ + 1],
                                IF pushed THEN "DONE" ELSE "thrown", "push", a)
    /\ OnlySync
\* Promise.all settles: it rejects as soon as one callback has thrown, and is
\* fulfilled with the results once every callback has returned one
promiseAll ==
    /\ git.out.state = "pending"
    /\ \/ /\ \E r \in DOMAIN git.tasks : git.tasks[r].status = "thrown"
          /\ git' = [git EXCEPT !.out = [state |-> "rejected", results |-> <<>>],
                                !.did = [op |-> "settle", repo |-> "", answers |-> <<>>]]
       \/ /\ \A r \in DOMAIN git.tasks :
                git.tasks[r].pc = "done" /\ git.tasks[r].status # "thrown"
          /\ git' = [git EXCEPT !.out = [state |-> "fulfilled",
                                         results |-> [r \in DOMAIN git.tasks |->
                                                         git.tasks[r].status]],
                                !.did = [op |-> "settle", repo |-> "", answers |-> <<>>]]
    /\ OnlySync
NextSync ==
    \/ startSync
    \/ commitAndAddAll
    \/ pullVaultsStash
    \/ pullVaultsPull
    \/ pushVaults
    \/ promiseAll
SpecSync == LoadedSync /\ [][NextSync]_vars

\* shouldVaultsSync on its own: a command, the vaults of a repository (one or
\* two, each with a sync mode or none), whether the repository is a workspace
\* vault, and workspace.workspaceVaultSyncMode ("" when not set)
LoadedSyncConfig ==
    /\ git \in [command : {"commit", "push", "pull"},
                vaults : UNION {[1..n -> {"", "skip", "noPush", "noCommit", "sync"}] : n \in 1..2},
                isWorkspaceVault : BOOLEAN,
                workspaceVaultSyncMode : {"", "skip", "noPush", "noCommit", "sync"},
                out : {<<>>}]
    /\ lnk = <<>>
    /\ disk = <<>>
    /\ notes = <<>>
    /\ noteFnames = NoFnames
    /\ fuse = {}
    /\ pending = {}
    /\ nIssued = 0
    /\ last = NoOutcome
    /\ mv = NotMoving
    /\ schemas = {}
    /\ fuseSchemas = {}
    /\ dr = NoDoctor
    /\ conf = <<>>
    /\ fw = <<>>
\* shouldVaultsSync is called and returns or throws
callShouldVaultsSync ==
    /\ git.out = <<>>
    /\ git' = [git EXCEPT !.out = <<shouldVaultsSync(git.command, git.vaults, git.isWorkspaceVault,
                                                     git.workspaceVaultSyncMode)>>]
    /\ OnlySync
SpecSyncConfig == LoadedSyncConfig /\ [][callShouldVaultsSync]_vars

\* ------------------------------------------------------------ dendron.yml
\* DoctorActionsEnum.ADD_MISSING_DEFAULT_CONFIGS. dendron.yml is a set of
\* namespaces; each is absent, holds its default or holds a value of the user.
ConfigKeys == {"commands", "preview"}
Configs == [ConfigKeys -> {"absent", "default", "custom"}]
\* a detection that asks for a backfill of every config
detectAlwaysBackfill(config) ==
    [needsBackfill |-> TRUE,
     backfilledConfig |-> [k \in ConfigKeys |-> IF config[k] = "absent" THEN "default" ELSE config[k]]]
\* ConfigUtils.detectMissingDefaults: whether a namespace is absent, and the
\* config with the defaults put in for the absent ones
detectMissingDefaults(config) ==
    [needsBackfill |-> \E k \in ConfigKeys : config[k] = "absent",
     backfilledConfig |-> [k \in ConfigKeys |-> IF config[k] = "absent" THEN "default" ELSE config[k]]]
\* what the action returns: { exit, error?, resp?: { backupPath } }; backup
\* paths are numbered from 1, 0 stands for none
ConfigOut(exit, error, backupPath) == [exit |-> exit, error |-> error, backupPath |-> backupPath]
\* a workspace with any dendron.yml, no backup of it and no doctor run so far
LoadedConfig ==
    /\ conf \in [raw : Configs, backups : {<<>>}, pc : {"idle"}, start : {[k \in ConfigKeys |-> "default"]},
                 backfilledConfig : {[k \in ConfigKeys |-> "default"]}, backupPath : {0},
                 wrote : {FALSE}, runs : {0}, out : {ConfigOut(FALSE, "", 0)}, did : {"init"}]
    /\ lnk = <<>>
    /\ disk = <<>>
    /\ git = <<>>
    /\ fw = <<>>
    /\ notes = <<>>
    /\ noteFnames = NoFnames
    /\ fuse = {}
    /\ pending = {}
    /\ nIssued = 0
    /\ last = NoOutcome
    /\ mv = NotMoving
    /\ schemas = {}
    /\ fuseSchemas = {}
    /\ dr = NoDoctor
\* nothing but dendron.yml and its backups changes
OnlyConfig ==
    UNCHANGED <<notes, noteFnames, fuse, pending, nIssued, last, mv, schemas,
                fuseSchemas, dr, lnk, disk, git, fw>>
\* the action starts: DConfig.getRaw, detectMissingDefaults; with nothing to
\* backfill it returns { exit: true }, else it goes on to the backup
addMissingDefaultConfigs ==
    /\ conf.pc = "idle"
    /\ conf.runs < MaxRuns
    /\ LET detectOut == detectMissingDefaults(conf.raw)
       IN  conf' = [conf EXCEPT !.pc = IF detectOut.needsBackfill THEN "createBackup" ELSE "idle",
                                !.start = conf.raw,
                                !.backfilledConfig = detectOut.backfilledConfig,
                                !.backupPath = 0,
                                !.wrote = FALSE,
                                !.runs = @ + 1,
                                !.out = ConfigOut(~detectOut.needsBackfill, "", 0),
                                !.did = "detect"]
    /\ OnlyConfig
\* await DConfig.createBackup: it copies dendron.yml and answers the path of
\* the copy, or it throws and the action returns the error
createBackup ==
    /\ conf.pc = "createBackup"
    /\ \E ok \in BOOLEAN :
          conf' = IF ok
                  THEN [conf EXCEPT !.backups = Append(@, conf.raw),
                                    !.backupPath = Len(conf.backups) + 1,
                                    !.pc = "writeConfig",
                                    !.did = "createBackup"]
                  ELSE [conf EXCEPT !.pc = "idle",
                                    !.out = ConfigOut(TRUE, "Backup failed. Exiting without filling missing defaults.", 0),
                                    !.did = "createBackup"]
    /\ OnlyConfig
\* await DConfig.writeConfig({ wsRoot, config: backfilledConfig }) and the
\* return of the backup path
writeConfig ==
    /\ conf.pc = "writeConfig"
    /\ conf' = [conf EXCEPT !.raw = conf.backfilledConfig,
                            !.wrote = TRUE,
                            !.pc = "idle",
                            !.out = ConfigOut(TRUE, "", conf.backupPath),
                            !.did = "writeConfig"]
    /\ OnlyConfig
\* the user edits dendron.yml: a namespace is removed, reset or given a value
editConfig ==
    /\ \E k \in ConfigKeys, v \in {"absent", "default", "custom"} :
          /\ v # conf.raw[k]
          /\ conf' = [conf EXCEPT !.raw[k] = v, !.did = "editConfig"]
    /\ OnlyConfig
NextConfig == addMissingDefaultConfigs \/ createBackup \/ writeConfig \/ editConfig
SpecConfig == LoadedConfig /\ [][NextConfig]_vars

\* ------------------------------------------- the vaults of dendron.yml
\* WorkspaceService.addVault and removeVault. A vault is { fsPath, name? }, a
\* name of "" stands for none; duplicateNoteBehavior is unset or
\* { action: useVault, payload: string[] }.
DVault(fsPath, name) == [fsPath |-> fsPath, name |-> name]
DVaults == {DVault("a", ""), DVault("b", ""), DVault("b", "B"), DVault("c", "")}
NoDuplicateNoteBehavior == [set |-> FALSE, payload |-> <<>>]
\* VaultUtils.getName: the name of the vault, its fsPath when it has none
getName(vault) == IF vault.name # "" THEN vault.name ELSE vault.fsPath
\* the part of dendron.yml the two methods edit
VaultsConfig(vaults, duplicateNoteBehavior) ==
    [vaults |-> vaults, duplicateNoteBehavior |-> duplicateNoteBehavior]
\* addVault with updateConfig: the vault goes to the front of the list and its
\* name into the payload, which is created from all vaults when it is unset
addVaultTo(config, vault) ==
    LET vaults == <<vault>> \o config.vaults
    IN  VaultsConfig(vaults,
            IF ~config.duplicateNoteBehavior.set
            THEN [set |-> TRUE, payload |-> [k \in 1..Len(vaults) |-> getName(vaults[k])]]
            ELSE [config.duplicateNoteBehavior EXCEPT !.payload = Append(@, getName(vault))])
\* removeVault with updateConfig: the vaults of the same path leave the list;
\* the setting is unset when one vault is left, else _.pull takes
\* vault.fsPath out of the payload
removeVaultFrom(config, vault) ==
    LET vaultsAfterReject == SelectSeq(config.vaults, LAMBDA ent : ent.fsPath # vault.fsPath)
    IN  VaultsConfig(vaultsAfterReject,
            IF ~config.duplicateNoteBehavior.set THEN config.duplicateNoteBehavior
            ELSE IF Len(vaultsAfterReject) = 1 THEN NoDuplicateNoteBehavior
            ELSE [config.duplicateNoteBehavior EXCEPT
                     !.payload = SelectSeq(@, LAMBDA name : name # vault.fsPath)])
\* dendron.yml, what the last call was and, after an addVault, what the file
\* held before it
VaultsStep(config, op, vault, before) ==
    [config |-> config, did |-> [op |-> op, vault |-> vault], before |-> before]
\* a fresh workspace: one vault, duplicateNoteBehavior unset
LoadedVaults ==
    /\ conf = VaultsStep(VaultsConfig(<<DVault("a", "")>>, NoDuplicateNoteBehavior), "init", DVault("a", ""),
                     VaultsConfig(<<>>, NoDuplicateNoteBehavior))
    /\ lnk = <<>>
    /\ disk = <<>>
    /\ git = <<>>
    /\ fw = <<>>
    /\ notes = <<>>
    /\ noteFnames = NoFnames
    /\ fuse = {}
    /\ pending = {}
    /\ nIssued = 0
    /\ last = NoOutcome
    /\ mv = NotMoving
    /\ schemas = {}
    /\ fuseSchemas = {}
    /\ dr = NoDoctor
\* a vault whose path is not configured yet is added
addVault ==
    /\ Len(conf.config.vaults) < MaxVaults
    /\ Len(conf.config.duplicateNoteBehavior.payload) <= MaxVaults
    /\ \E vault \in DVaults :
          /\ \A k \in 1..Len(conf.config.vaults) : conf.config.vaults[k].fsPath # vault.fsPath
          /\ conf' = VaultsStep(addVaultTo(conf.config, vault), "addVault", vault, conf.config)
    /\ OnlyConfig
\* a configured vault is removed
removeVault ==
    /\ \E k \in 1..Len(conf.config.vaults) :
          conf' = VaultsStep(removeVaultFrom(conf.config, conf.config.vaults[k]), "removeVault",
                         conf.config.vaults[k], VaultsConfig(<<>>, NoDuplicateNoteBehavior))
    /\ OnlyConfig
NextVaults == addVault \/ removeVault
SpecVaults == LoadedVaults /\ [][NextVaults]_vars

\* ------------------------------------------------------ the file watcher
\* MoveNoteCommand.execute and RenameNoteV2aCommand.execute around
\* ext.fileWatcher.pause. A command is not started yet ("idle"), waits for the
\* answer to the multi-move preview, has a renameNote request in flight, or is
\* done; `left` counts the requests it still has to make.
NoCommand == [kind |-> "none", noPauseWatcher |-> FALSE, pc |-> "idle", left |-> 0, outcome |-> "none"]
\* the state a step leaves: the flag, the commands, the setTimeout callbacks
\* that have not run yet (oldest first) and what the step was
Watch(exists, pause, cmd, timers, op, c) ==
    [exists |-> exists, pause |-> pause, cmd |-> cmd, timers |-> timers, did |-> [op |-> op, c |-> c]]
\* a workspace with or without a file watcher; nothing is paused
LoadedWatch ==
    /\ \E exists \in BOOLEAN :
          fw = Watch(exists, FALSE, [c \in 1..MaxRuns |-> NoCommand], <<>>, "init", 0)
    /\ lnk = <<>>
    /\ disk = <<>>
    /\ git = <<>>
    /\ conf = <<>>
    /\ notes = <<>>
    /\ noteFnames = NoFnames
    /\ fuse = {}
    /\ pending = {}
    /\ nIssued = 0
    /\ last = NoOutcome
    /\ mv = NotMoving
    /\ schemas = {}
    /\ fuseSchemas = {}
    /\ dr = NoDoctor
\* nothing but the watcher and the commands changes
OnlyWatch ==
    UNCHANGED <<notes, noteFnames, fuse, pending, nIssued, last, mv, schemas,
                fuseSchemas, dr, lnk, disk, git, conf>>
\* the finally block of execute: with a watcher to unpause, setTimeout(..., 3000)
finally(c, outcome, op) ==
    fw' = Watch(fw.exists, fw.pause,
                [fw.cmd EXCEPT ![c].pc = "done", ![c].left = 0, ![c].outcome = outcome],
                IF fw.exists /\ ~fw.cmd[c].noPauseWatcher THEN Append(fw.timers, c) ELSE fw.timers,
                op, c)
\* execute is called: the flag is set, then a move of several notes shows its
\* preview and any other command issues its first renameNote request
execute ==
    /\ \E c \in 1..MaxRuns, kind \in {"move", "rename"}, noPauseWatcher \in BOOLEAN, moves \in 1..2 :
          /\ fw.cmd[c].pc = "idle"
          /\ \A b \in 1..(c - 1) : fw.cmd[b].pc # "idle"
          /\ kind = "rename" => moves = 1
          /\ fw' = Watch(fw.exists,
                         IF fw.exists /\ ~noPauseWatcher THEN TRUE ELSE fw.pause,
                         [fw.cmd EXCEPT ![c] = [kind |-> kind, noPauseWatcher |-> noPauseWatcher,
                                                pc |-> IF moves > 1 THEN "preview" ELSE "inflight",
                                                left |-> moves, outcome |-> "none"]],
                         fw.timers, "execute", c)
    /\ OnlyWatch
\* QuickPickUtil.showProceedCancel answers: the move goes on, or it is
\* cancelled and returns { changed: [] }
showProceedCancel ==
    /\ \E c \in 1..MaxRuns, result \in {"PROCEED", "CANCEL"} :
          /\ fw.cmd[c].pc = "preview"
          /\ IF result = "PROCEED"
             THEN fw' = Watch(fw.exists, fw.pause, [fw.cmd EXCEPT ![c].pc = "inflight"],
                              fw.timers, "showProceedCancel", c)
             ELSE finally(c, "cancelled", "showProceedCancel")
    /\ OnlyWatch
\* a renameNote request returns: the next request goes out, the command
\* returns after the last one, or the request failed and the command throws
renameNoteReturns ==
    /\ \E c \in 1..MaxRuns, ok \in BOOLEAN :
          /\ fw.cmd[c].pc = "inflight"
          /\ IF ~ok THEN finally(c, "thrown", "renameNote")
             ELSE IF fw.cmd[c].left = 1 THEN finally(c, "returned", "renameNote")
             ELSE fw' = Watch(fw.exists, fw.pause, [fw.cmd EXCEPT ![c].left = @ - 1],
                              fw.timers, "renameNote", c)
    /\ OnlyWatch
\* the oldest setTimeout callback runs, 3000 ms after its command finished
timeout ==
    /\ fw.timers # <<>>
    /\ fw' = Watch(fw.exists, IF fw.exists THEN FALSE ELSE fw.pause, fw.cmd,
                   Tail(fw.timers), "timeout", Head(fw.timers))
    /\ OnlyWatch
NextWatch == execute \/ showProceedCancel \/ renameNoteReturns \/ timeout
SpecWatch == LoadedWatch /\ [][NextWatch]_vars
\* timers run: a callback that was set is called in the end
SpecWatchFair == SpecWatch /\ WF_vars(timeout)

\* ================================================================ claims
\* request q (of the next state) has just had its batch applied by refreshNotesV2
RefreshStep(q) ==
    /\ q.pc = "refreshed"
    /\ \A r \in pending : ~(r.seq = q.seq /\ r.pc = "refreshed")
\* request r (of this state) is given its response in this step
HandlerStep(r) ==
    /\ r.pc \in {"awaiting", "updating"}
    /\ last'.seq = r.seq
    /\ last'.out # "none"
\* no entry after the k-th names the note id of the k-th
LastFor(batch, k) ==
    \A j \in (k + 1)..Len(batch) :
        /\ batch[j].note.id # batch[k].note.id
        /\ Len(batch[j].prev) = 1 => batch[j].prev[1].id # batch[k].note.id
IsPerm(a, b) ==
    /\ Len(a) = Len(b)
    /\ \A x \in Range(a) \cup Range(b) :
          Cardinality({k \in DOMAIN a : a[k] = x}) = Cardinality({k \in DOMAIN b : b[k] = x})
IsSortedBy(cs, key) == \A a, b \in DOMAIN cs : a < b => key[cs[a]] <= key[cs[b]]
\* queryNote for an fname returns the note with this id
Queried(idx, ns, f, i) == \E e \in FuseQuery(idx, f) : e.id = i /\ i \in DOMAIN ns

\* C1: when writeNote is answered with an error, or deleteNote, renameNote or
\* updateNote with a response that has no data, the handler leaves notes,
\* noteFnames and the search index as they were, fires no event and ends the call.
C1_FailedMutationKeepsGraph ==
    [][\A r \in pending :
          (/\ HandlerStep(r)
           /\ \/ r.op = "writeNote" /\ last'.error
              \/ r.op \in {"deleteNote", "renameNote", "updateNote"} /\ ~last'.hasData)
          => /\ notes' = notes
             /\ noteFnames' = noteFnames
             /\ fuse' = fuse
             /\ last'.out \in {"returned", "threw"}
             /\ \A x \in pending' : x.seq # r.seq]_vars
C1_Witness ==
    /\ DOMAIN notes # {}
    /\ last.op = "writeNote"
    /\ last.error
    /\ last.hasData
    /\ last.out = "returned"

\* C2: once refreshNotesV2 has applied an update entry whose note.fname differs
\* from prevNote.fname (and no later entry of the batch names that note), the
\* fname index lists the note's id under the new fname and no longer under the
\* previous one; a batch of update entries that change neither fname nor id
\* leaves the fname index as it was.
FnameMoved(e) == e.status = "update" /\ Len(e.prev) = 1 /\ e.prev[1].fname # e.note.fname
FnameKept(e) ==
    /\ e.status = "update"
    /\ Len(e.prev) = 1
    /\ e.prev[1].fname = e.note.fname
    /\ e.prev[1].id = e.note.id
C2_UpdateMovesFname ==
    [][\A q \in pending' : RefreshStep(q) =>
          /\ \A k \in DOMAIN q.batch :
                (FnameMoved(q.batch[k]) /\ LastFor(q.batch, k)) =>
                    /\ q.batch[k].note.id \in noteFnames'[q.batch[k].note.fname]
                    /\ q.batch[k].note.id \notin noteFnames'[q.batch[k].prev[1].fname]
          /\ (\A k \in DOMAIN q.batch : FnameKept(q.batch[k])) => noteFnames' = noteFnames]_vars
C2_Witness ==
    \E r \in pending :
        /\ r.pc = "refreshed"
        /\ \E k \in DOMAIN r.batch :
              /\ FnameMoved(r.batch[k])
              /\ r.batch[k].prev[1].id \in DOMAIN notes
              /\ r.batch[k].note.id \in noteFnames[r.batch[k].note.fname]

\* C3 (as claimed): no two entries of the notes map share a (fname, vault) pair.
C3_UniqueFnameVault ==
    \A i, j \in DOMAIN notes :
        i # j => <<notes[i].fname, notes[i].vault>> # <<notes[j].fname, notes[j].vault>>

\* C4: once refreshNotesV2 has applied a batch with a delete entry for note P
\* (and no later entry of the batch names P's id), P is absent from notes, from
\* the fname index and from the query results for its fname, and every child
\* of P that was in notes and has no delete entry of its own is still in notes
\* and returned by the query for its fname.
DeletedIn(batch, c) == \E k \in DOMAIN batch : batch[k].status = "delete" /\ batch[k].note.id = c
C4_DeleteDoesNotCascade ==
    [][\A q \in pending' : RefreshStep(q) =>
          \A k \in DOMAIN q.batch :
             (q.batch[k].status = "delete" /\ LastFor(q.batch, k)) =>
                LET P == q.batch[k].note
                IN  /\ P.id \notin DOMAIN notes'
                    /\ P.id \notin noteFnames'[P.fname]
                    /\ ~Queried(fuse', notes', P.fname, P.id)
                    /\ \A c \in Range(P.children) :
                          (c \in DOMAIN notes /\ ~DeletedIn(q.batch, c)) =>
                              /\ c \in DOMAIN notes'
                              /\ Queried(fuse', notes', notes'[c].fname, c)]_vars
C4_Witness ==
    \E r \in pending :
        /\ r.pc = "refreshed"
        /\ \E k \in DOMAIN r.batch :
              /\ r.batch[k].status = "delete"
              /\ r.batch[k].note.id \notin DOMAIN notes
              /\ \E c \in Range(r.batch[k].note.children) : c \in DOMAIN notes

\* C5 (as claimed, for the create batch that updateNote builds): once the
\* batch is applied the created note N is in notes and in the fname index, and
\* the children of N's parent in notes contain N's id and are sorted by title.
TitleKey(ns) ==
    [c \in Ids |-> TitleRank[IF c \in DOMAIN ns THEN ns[c].title ELSE PlaceholderTitle]]
C5_CreateUpdatesParent ==
    [][\A q \in pending' : (RefreshStep(q) /\ q.op = "updateNote") =>
          \A k \in DOMAIN q.batch : q.batch[k].status = "create" =>
             LET N == q.batch[k].note
             IN  /\ N.id \in DOMAIN notes'
                 /\ N.id \in noteFnames'[N.fname]
                 /\ \A p \in ParentIds(notes', N) :
                       /\ N.id \in Range(notes'[p].children)
                       /\ IsSortedBy(notes'[p].children, TitleKey(notes'))]_vars

\* C6 (as claimed): once a batch is applied, the children of every note it
\* updated are a permutation of the list given, in non-decreasing order of the
\* titles the notes map holds after the batch (the placeholder for unknown ids).
C6_SortedByFinalTitles ==
    [][\A q \in pending' : RefreshStep(q) =>
          \A k \in DOMAIN q.batch :
             (q.batch[k].status = "update" /\ LastFor(q.batch, k)) =>
                LET i == q.batch[k].note.id
                IN  /\ i \in DOMAIN notes'
                    /\ IsPerm(notes'[i].children, q.batch[k].note.children)
                    /\ IsSortedBy(notes'[i].children, TitleKey(notes'))]_vars
\* C6 (amended): the order is that of the titles known when the entry is
\* applied: the title the notes map holds at that moment (earlier entries of
\* the batch applied, later ones not), else the title of the first entry of
\* the batch with that id, else the placeholder; an unknown child never stops
\* the batch.
KnownKey(ns, batch) == [c \in Ids |-> TitleRank[KnownTitle(ns, batch, c)]]
C6_SortedByKnownTitles ==
    [][\A q \in pending' : RefreshStep(q) =>
          \A k \in DOMAIN q.batch :
             (q.batch[k].status = "update" /\ LastFor(q.batch, k)) =>
                LET i == q.batch[k].note.id
                    before == RefreshPrefix([notes |-> notes, fnames |-> noteFnames],
                                            q.batch, k - 1).notes
                IN  /\ i \in DOMAIN notes'
                    /\ IsPerm(notes'[i].children, q.batch[k].note.children)
                    /\ IsSortedBy(notes'[i].children, KnownKey(before, q.batch))]_vars
C6_Witness ==
    \E r \in pending :
        /\ r.pc = "refreshed"
        /\ \E k \in DOMAIN r.batch :
              /\ r.batch[k].status = "update"
              /\ Len(r.batch[k].note.children) = 2
              /\ r.batch[k].note.children # notes[r.batch[k].note.id].children
              /\ \E c \in Range(r.batch[k].note.children) :
                    /\ c \notin DOMAIN notes
                    /\ \A j \in DOMAIN r.batch : r.batch[j].note.id # c

\* C7: writeNote, deleteNote, renameNote, updateNote and bulkAddNotes fire the
\* event only in the step after refreshNotesV2 has applied the batch of the
\* call (for writeNote with updateExisting: the batch without its delete
\* entries): when the listeners run, notes and the fname index hold every
\* entry of that batch, and firing changes nothing.
Reflects(ns, fn, batch) ==
    \A k \in DOMAIN batch :
       (\A j \in (k + 1)..Len(batch) : batch[j].note.id # batch[k].note.id) =>
          LET e == batch[k]
              i == e.note.id
          IN  IF e.status = "delete"
              THEN i \notin DOMAIN ns /\ i \notin fn[e.note.fname]
              ELSE /\ i \in DOMAIN ns
                   /\ ns[i].fname = e.note.fname
                   /\ ns[i].vault = e.note.vault
                   /\ ns[i].title = e.note.title
                   /\ IsPerm(ns[i].children, e.note.children)
                   /\ (e.status = "create" \/ ~FnameKept(e)) => i \in fn[e.note.fname]
C8_EveryChangeFires ==
    [][\A r \in pending :
          (r.pc = "refreshed" /\ r.batch # <<>> /\ r \notin pending') =>
              /\ last'.out = "fired"
              /\ \A k \in DOMAIN r.batch : \E j \in DOMAIN last'.event.entries :
                    /\ last'.event.entries[j].status = r.batch[k].status
                    /\ last'.event.entries[j].note.id = r.batch[k].note.id]_vars

\* C9 (as claimed): the result of a call is never applied while an earlier
\* call on the same note id is still waiting for its response, so that a
\* delete is not applied while a write is pending and results are applied in
\* the order the calls were made.
C9_AppliedInIssueOrder ==
    [][\A q \in pending' : RefreshStep(q) =>
          \A r \in pending :
             (r.id = q.id /\ r.seq < q.seq) => r.pc # "awaiting"]_vars
\* C9 (amended): the client does not serialize overlapping calls: the batch of
\* a writeNote, deleteNote or renameNote response that carries data and no
\* error is applied as a whole in the step the response arrives, to the notes
\* as they are then, whatever other calls are still waiting; the final state
\* is the results applied in the order the responses arrive.
C9_AppliedOnArrival ==
    [][\A r \in pending :
          (/\ HandlerStep(r)
           /\ r.op \in {"writeNote", "deleteNote", "renameNote"}
           /\ last'.hasData
           /\ ~last'.error)
          => \E q \in pending' :
                /\ q.seq = r.seq
                /\ q.pc = "refreshed"
                /\ pending' \ {q} = pending \ {r}
                /\ LET st == refreshNotesV2([notes |-> notes, fnames |-> noteFnames], q.batch)
                   IN  /\ notes' = st.notes
                       /\ noteFnames' = st.fnames
                       /\ fuse' = UpdateNotesIndex(st.notes)]_vars
C9_Witness ==
    \E q \in pending, r \in pending :
        /\ q.op = "deleteNote"
        /\ q.pc = "refreshed"
        /\ q.id \notin DOMAIN notes
        /\ r.op = "writeNote"
        /\ r.pc = "awaiting"
        /\ r.id = q.id
        /\ r.seq < q.seq

\* C10: moveNotes has at most one renameNote call waiting for its response;
\* it makes the call for the k-th necessary move only when no call is
\* outstanding and, for k > 1, the call before has fired its event and
\* returned with its batch applied to notes and the fname index.
C10_OneRenameAtATime ==
    [][/\ Cardinality({r \in pending' : r.op = "renameNote" /\ r.pc = "awaiting"}) <= 1
       /\ \A q \in pending' :
             (q.op = "renameNote" /\ q.pc = "awaiting" /\ \A r \in pending : r.seq # q.seq)
             => /\ pending = {}
                /\ q.seq <= Len(mv'.moves)
                /\ q.arg = <<mv'.moves[q.seq]>>
                /\ q.seq > 1 =>
                      /\ last.seq = q.seq - 1
                      /\ last.out = "fired"
                      /\ Reflects(notes, noteFnames, last.event.entries)]_vars
C10_Witness ==
    /\ mv.pc = "done"
    /\ Len(mv.moves) = 2
    /\ nIssued = 2
    /\ Len(mv.allChanges) >= 2
    /\ \A i \in DOMAIN notes : i = 1 \/ notes[i].vault = "v2"


\* C11: when the API response has no data, init, sync, deleteNote, updateNote
\* and renameNote throw a typed error: none of them returns, none of them
\* throws undefined.
C11_NoDataRaisesTypedError ==
    [][\A r \in pending :
          (/\ HandlerStep(r)
           /\ r.op \in {"init", "sync", "deleteNote", "updateNote", "renameNote"}
           /\ ~last'.hasData)
          => /\ last'.out = "threw"
             /\ last'.thrown \in {"DendronError", "resp.error"}]_vars

\* C12: when the response to deleteSchema lacks the notes or the schemas,
\* deleteSchema throws and leaves schemas, notes and the fname index as they
\* were: the schema of the given id is still held.
C12_BadDeleteKeepsSchemas ==
    [][\A r \in pending :
          (/\ HandlerStep(r)
           /\ r.op = "deleteSchema"
           /\ ~(last'.got[1].hasNotes /\ last'.got[1].hasSchemas))
          => /\ last'.out = "threw"
             /\ schemas' = schemas
             /\ notes' = notes
             /\ noteFnames' = noteFnames]_vars

\* C13: init given a response with data and no error, or only a minor error,
\* installs the notes and the schemas of the response and the fname index built
\* from those notes, and returns them with the error; given an error that is
\* not minor it returns the error alone and leaves notes, fname index and
\* schemas as they were.
C13_InitInstallsOrKeeps ==
    [][\A r \in pending :
          (HandlerStep(r) /\ r.op = "init")
          => LET resp == last'.got[1]
             IN  IF last'.out = "threw" THEN ~last'.hasData
                 ELSE IF resp.error /\ ~resp.minor
                 THEN /\ last'.ret = "error"
                      /\ notes' = notes
                      /\ noteFnames' = noteFnames
                      /\ schemas' = schemas
                 ELSE /\ resp.hasData
                      /\ last'.ret = "error+data"
                      /\ last'.error = resp.error
                      /\ notes' = resp.data
                      /\ noteFnames' = FnBuild(resp.data)
                      /\ schemas' = resp.schemas]_vars
\* init has answered a minor error with data that replaced other notes and
\* schemas
C13_Witness ==
    /\ last.op = "init"
    /\ last.ret = "error+data"
    /\ last.error
    /\ last.seq = 2
    /\ notes = last.got[1].data
    /\ schemas = {"s2"}
    /\ Len(notes) >= 2



\* C14: a second run of H1_TO_TITLE, HI_TO_H2, REMOVE_STUBS,
\* CREATE_MISSING_LINKED_NOTES or REGENERATE_NOTE_ID with the candidates of the
\* first run, which the limit did not cut short, calls no engine method that
\* mutates.
C14_SecondRunMutatesNothing ==
    [][(/\ dr.run = "second"
        /\ dr.action \in {"h1ToTitle", "h1ToH2", "removeStubs",
                          "createMissingLinkedNotes", "regenerateNoteId"}
        /\ Len(dr.candidates) <= dr.limit)
       => nIssued' = nIssued]_vars

\* C15: the engine calls of one run are at most limit, for every action that
\* goes through the notes, FIX_AIRTABLE_METADATA among them; a limit of 0
\* calls nothing.
C15_CallsWithinLimit ==
    dr.run = "first" => nIssued <= dr.limit

\* C16: REGENERATE_NOTE_ID leaves a note of the reserved root id as it is and
\* calls nothing for it; every other note the loop reaches gets an id that no
\* note of the engine or of the candidates has, and engine.writeNote is called
\* with the note under that id.
C16_RegeneratesAllButRoot ==
    [][/\ (Looping("regenerateNoteId") /\ dr' # dr) =>
             IF Current.id = RootId
             THEN /\ pending' = pending
                  /\ nIssued' = nIssued
                  /\ dr'.notes = dr.notes
                  /\ dr'.candidates = dr.candidates
             ELSE LET n == dr'.notes[dr.idx]
                  IN  /\ n.id \notin DOMAIN notes \cup {c.id : c \in Range(dr.candidates)}
                                         \cup {RootId}
                      /\ n = [Current EXCEPT !.id = n.id]
                      /\ n \in Range(dr'.candidates)
                      /\ dr'.pc = "awaiting"
                      /\ \E q \in pending' \ pending :
                            q.op = "writeNote" /\ q.upd /\ q.arg = <<n>>
       /\ \A q \in pending' : q.arg # <<>> /\ q.op = "writeNote" => q.arg[1].id # RootId
       /\ (dr.action = "regenerateNoteId" /\ dr'.action = "regenerateNoteId")
             => {k \in DOMAIN dr'.candidates : dr'.candidates[k].id = RootId}
                   = {k \in DOMAIN dr.candidates : dr.candidates[k].id = RootId}]_vars
\* a dry run over the root note and two more notes has ended: the engine holds
\* the two under generated ids
C16_Witness ==
    /\ dr.pc = "done"
    /\ dr.action = "regenerateNoteId"
    /\ dr.run = "first"
    /\ dr.dryRun
    /\ Len(dr.notes) = 3
    /\ dr.notes[1].id = RootId
    /\ {dr.notes[2].id, dr.notes[3].id} \subseteq GenIds \cap DOMAIN notes
    /\ nIssued = 2

\* the report of FIND_BROKEN_LINKS over all of ns
ExpectedReport(ns, vaults) ==
    LET RECURSIVE Rep(_)
        Rep(k) ==
            IF k > Len(ns) THEN <<>>
            ELSE (IF findBrokenLinks(ns[k], ns, vaults) = <<>> THEN <<>>
                  ELSE <<[file |-> ns[k].fname, vault |-> ns[k].vault,
                          links |-> findBrokenLinks(ns[k], ns, vaults)]>>) \o Rep(k + 1)
    IN  Rep(1)
\* C17: FIND_BROKEN_LINKS calls no engine method and leaves the
\* engine's notes as they are, and whatever the limit its report has every
\* candidate that findBrokenLinks finds a broken link in.
C17_ReportsRegardlessOfLimit ==
    [][dr'.action = "findBrokenLinks" =>
          /\ pending' = pending
          /\ nIssued' = nIssued
          /\ notes' = notes
          /\ noteFnames' = noteFnames
          /\ dr'.pc = "done" => dr'.resp = ExpectedReport(dr'.notes, dr'.vaults)]_vars
\* link of the k-th note of the run is in the report
Reported(k, link) ==
    \E j \in DOMAIN dr.resp :
        /\ dr.resp[j].file = dr.notes[k].fname
        /\ dr.resp[j].vault = dr.notes[k].vault
        /\ link \in Range(dr.resp[j].links)
FindBrokenLinksDone ==
    dr.pc = "done" /\ dr.action = "findBrokenLinks" /\ dr.limit > 0
\* C18: a wiki link with a vault prefix is reported exactly when the engine
\* has no note of the target fname in the vault named, a vault of no
\* workspace included.
C18_PrefixedLinkBrokenIffAbsent ==
    FindBrokenLinksDone =>
        \A k \in DOMAIN dr.notes : \A link \in Range(dr.notes[k].links) :
            (link.type = "wiki" /\ hasVaultPrefix(link)) =>
                (Reported(k, link) <=>
                    ~\E i \in DOMAIN notes : /\ notes[i].fname = link.to.fname
                                             /\ notes[i].vault = link.to.vaultName)

\* C19: a wiki link without a vault prefix whose target fname no note of the
\* engine has is reported, in a workspace of one vault and of several.
C19_UnprefixedLinkToNothingIsBroken ==
    FindBrokenLinksDone =>
        \A k \in DOMAIN dr.notes : \A link \in Range(dr.notes[k].links) :
            (/\ link.type = "wiki"
             /\ ~hasVaultPrefix(link)
             /\ \A i \in DOMAIN notes : notes[i].fname # link.to.fname)
            => Reported(k, link)



\* a wiki link whose target fname no note of ns has in the vault of the
\* workspace that the link names or, without a prefix, in the vault of its note
BrokenLinks(note, ns, vaults) ==
    SelectSeq(note.links,
              LAMBDA l : /\ l.type = "wiki"
                         /\ hasVaultPrefix(l) => l.to.vaultName \in Range(vaults)
                         /\ ~getNoteByFnameV5(l.to.fname,
                                              IF hasVaultPrefix(l) THEN l.to.vaultName
                                              ELSE note.vault, ns))
\* the target fnames of the broken links of the candidates
Targets(d) ==
    UNION {{l.to.fname : l \in Range(BrokenLinks(d.candidates[k], d.candidates, d.vaults))} :
              k \in DOMAIN d.candidates}
\* C20: a run of CREATE_MISSING_LINKED_NOTES that is not dry and has the
\* default limit requests creation once for every target fname of the broken
\* links of the candidates, and for no other fname.
C20_OncePerTargetFname ==
    [][/\ dr.action = "createMissingLinkedNotes" =>
             \A q \in pending' \ pending :
                 /\ q.op = "getNoteByPath"
                 /\ q.arg = <<Current>>
                 /\ Current.fname \in Targets(dr)
                 /\ \A j \in 1..(dr.idx - 1) : dr.notes[j].fname # Current.fname
       /\ (/\ dr'.action = "createMissingLinkedNotes"
           /\ dr'.run = "first"
           /\ dr'.pc = "done"
           /\ ~dr'.dryRun
           /\ dr'.limit = DefaultLimit)
          => nIssued' = Cardinality(Targets(dr'))]_vars


\* the links of note that point to fname and are of the type given
RefsTo(note, fname, type) ==
    {k \in DOMAIN note.links : note.links[k].to.fname = fname /\ note.links[k].type = type}
\* C21: if note A links to note B once or several times and B exists, the
\* backlinks of B hold exactly one entry whose source is A, and that entry
\* holds one linked ref per wiki link of A to B and one candidate ref per
\* candidate link of A to B.
C21_OneBacklinkPerSource ==
    \A a \in DOMAIN lnk.notes, b \in DOMAIN lnk.notes :
        LET backlinks == computeBacklinks(b, lnk.notes)
            ofA == {k \in DOMAIN backlinks : backlinks[k].source = a}
            linked == RefsTo(lnk.notes[a], b, "wiki")
            candidates == RefsTo(lnk.notes[a], b, "linkCandidate")
        IN  linked \cup candidates # {} =>
                /\ Cardinality(ofA) = 1
                /\ \A k \in ofA : /\ Len(backlinks[k].linked) = Cardinality(linked)
                                  /\ Len(backlinks[k].candidates) = Cardinality(candidates)
\* beta links to alpha twice, delta once: alpha has two backlinks, and the one
\* of beta keeps both occurrences
C21_Witness ==
    /\ Cardinality(RefsTo(lnk.notes["beta"], "alpha", "wiki")
                   \cup RefsTo(lnk.notes["beta"], "alpha", "linkCandidate")) = 2
    /\ RefsTo(lnk.notes["delta"], "alpha", "wiki") # {}
    /\ Len(computeBacklinks("alpha", lnk.notes)) = 2

\* the body of note f has fewer tokens than workspace.maxNoteLength allows,
\* or than the default maximum when that is not set
Short(f) ==
    \/ lnk.maxNoteLength = 0 /\ Len(lnk.notes[f].body) < DefaultMaxNoteLength
    \/ lnk.maxNoteLength # 0 /\ Len(lnk.notes[f].body) < lnk.maxNoteLength
\* the step is a refreshNoteLinksAndAnchors that returned
Refreshed == lnk'.did.op = "refresh" /\ lnk'.did.out = "returned"
\* the links of the note are the regular links of its body, followed by the
\* candidate links if asked for
FreshLinks(f, ns, withCandidates) ==
    ns[f].links = getLinks(f, ns[f].body, "regular", DOMAIN ns)
                  \o (IF withCandidates THEN getLinks(f, ns[f].body, "candidate", DOMAIN ns)
                      ELSE <<>>)
C24_PortDiscovery ==
    /\ [](LET ws == "ws/.dendron.port"
              cli == "ws/.dendron.port.cli"
              found == getPortFilePath(disk.files, "ws")
          IN  /\ ws \in DOMAIN disk.files => found.data = <<ws>>
              /\ found.data = <<cli>> <=> ws \notin DOMAIN disk.files /\ cli \in DOMAIN disk.files
              /\ found.error = "404" <=> ws \notin DOMAIN disk.files /\ cli \notin DOMAIN disk.files
              /\ found.error = "404" <=> found.data = <<>>)
    /\ [][disk'.did.op = "writeEnginePortForCLI" =>
             LET ws == "ws/.dendron.port"
             IN  /\ getEnginePortForCLI(disk'.files, "ws") = disk'.did.arg
                 /\ ws \in DOMAIN disk'.files <=> ws \in DOMAIN disk.files
                 /\ ws \in DOMAIN disk.files => disk'.files[ws] = disk.files[ws]]_vars
\* a port was written for the CLI while the workspace port file held another
\* port: discovery still answers with the workspace file and its port
C24_Witness ==
    /\ disk.did.op = "writeEnginePortForCLI"
    /\ getEnginePortForCLI(disk.files, "ws") = disk.did.arg
    /\ getPortFilePath(disk.files, "ws").data = <<"ws/.dendron.port">>
    /\ getEnginePort(disk.files, "ws").data # <<disk.did.arg>>

\* the cache file of vault v
CacheOf(v) == "ws/" \o v \o "/.dendron.cache.json"
\* C25: removing the cache file of a vault never changes the note a later
\* load obtains: in every state the load of each vault yields the note it
\* yields without the cache file; reading the cache after removeCache or
\* removeVaultCaches yields the empty cache (version 0, no notes), and the
\* removal touches no other file.
C25_CacheRemovalKeepsNotes ==
    /\ [](\A v \in Vaults :
              loadNote(disk.files, "ws/" \o v)
                  = loadNote([p \in DOMAIN disk.files \ {CacheOf(v)} |-> disk.files[p]],
                             "ws/" \o v))
    /\ [][disk'.did.op \in {"removeCache", "removeVaultCaches"} =>
             LET removed == IF disk'.did.op = "removeCache" THEN {disk'.did.arg} ELSE Vaults
             IN  /\ \A v \in removed :
                        /\ readNotesFromCache(disk'.files, "ws/" \o v).version = 0
                        /\ readNotesFromCache(disk'.files, "ws/" \o v).entry = <<>>
                 /\ DOMAIN disk'.files = DOMAIN disk.files \ {CacheOf(v) : v \in removed}
                 /\ \A p \in DOMAIN disk'.files : disk'.files[p] = disk.files[p]]_vars
\* the cache of v1 was removed while v2 keeps a cache written before its note
\* file was edited
C25_Witness ==
    /\ disk.did = [op |-> "removeCache", arg |-> "v1"]
    /\ CacheOf("v1") \notin DOMAIN disk.files
    /\ CacheOf("v2") \in DOMAIN disk.files
    /\ disk.files[CacheOf("v2")].entry[1].hash # Hash(disk.files["ws/v2/a.md"])
    /\ disk.files[CacheOf("v2")].entry[1].data.title # disk.files["ws/v2/a.md"].title

\* C23: when pullVaults, pushVaults or commitAndAddAll runs over several
\* repositories, a failure in one repository never makes the caller receive a
\* single failure for the whole batch: the call is never rejected, and when it
\* has settled the caller holds a status for every repository.
C23_EveryRepoGetsAStatus ==
    /\ git.out.state # "rejected"
    /\ git.out.state = "fulfilled" => DOMAIN git.out.results = DOMAIN git.tasks

\* C27: in pullVaults, a repository whose tracked changes were stashed and
\* hard-reset has had its stash applied exactly once when its result is
\* there, whether the pull succeeded, ended in a merge conflict or threw; no
\* stash is ever applied twice.
C27_StashAppliedOnce ==
    \A r \in DOMAIN git.tasks :
        /\ git.tasks[r].applies <= 1
        /\ git.tasks[r].applies = 1 => git.tasks[r].reset
        /\ git.tasks[r].pc = "done" /\ git.tasks[r].reset => git.tasks[r].applies = 1
\* one repository ended in a merge conflict after the pull, the other with an
\* unexpected pull error, both with their stash applied once
C27_Witness ==
    /\ git.cmd = "pull"
    /\ git.tasks["r1"].status = "MERGE_CONFLICT_LOSES_CHANGES"
    /\ git.tasks["r1"].reset /\ git.tasks["r1"].applies = 1
    /\ git.tasks["r2"].status = "thrown"
    /\ git.tasks["r2"].reset /\ git.tasks["r2"].applies = 1

\* the sync modes the vaults of repository r set
ModesOf(r) == {git.config[r][k] : k \in DOMAIN git.config[r]} \ {""}
\* whether each check of pushVaults passes, in the order of the claim; the
\* first stands for the sync mode of the repository,
\* which is noCommit by default for the workspace root r1 and sync otherwise
PushChecks(r, a) ==
    <<ModesOf(r) \cap {"skip", "noPush"} = {}, a["hasRemote"], ~a["hasMergeConflicts"],
      ~a["hasRebaseInProgress"], a["getUpstream"], a["hasAccessToRemote"],
      a["hasPushableChanges"], a["hasPushableRemote"], a["canPushVault"]>>
\* the status of the failure of each of these checks
PushStatus ==
    <<"SKIP_CONFIG", "NO_REMOTE", "MERGE_CONFLICT", "REBASE_IN_PROGRESS", "NO_UPSTREAM",
      "BAD_REMOTE", "NO_CHANGES", "UNPULLED_CHANGES", "NOT_PERMITTED">>
C29_SyncModeTable ==
    git.out # <<>> =>
        LET set == {git.vaults[k] : k \in DOMAIN git.vaults} \ {""}
            effective == IF set # {} THEN CHOOSE m \in set : TRUE
                         ELSE IF ~git.isWorkspaceVault THEN "sync"
                         ELSE IF git.workspaceVaultSyncMode = "" THEN "noCommit"
                         ELSE git.workspaceVaultSyncMode
        IN  IF Cardinality(set) > 1 THEN git.out[1].threw
            ELSE /\ ~git.out[1].threw
                 /\ effective = "skip" => ~git.out[1].value
                 /\ effective = "sync" => git.out[1].value
                 /\ effective = "noCommit" => (git.out[1].value <=> git.command # "commit")
                 /\ effective = "noPush" => (git.out[1].value <=> git.command # "push")
\* a commit was asked for a workspace vault where neither a vault nor the
\* workspace sets a mode: the default noCommit forbids it
C29_Witness ==
    /\ git.out = <<[threw |-> FALSE, value |-> FALSE]>>
    /\ git.command = "commit"
    /\ git.vaults = <<"", "">>
    /\ git.isWorkspaceVault /\ git.workspaceVaultSyncMode = ""

\* C28: updateNote applies and announces exactly one change entry, for the
\* note written: an update whose prevNote is the note engineGetNoteByPath
\* found at the fname and vault of the argument when there was one, a create
\* without prevNote when there was none.
C28_UpdateNoteAnnouncesOneEntry ==
    [][last'.op = "updateNote" /\ last'.out = "fired" =>
          \E r \in pending :
              /\ r.seq = last'.seq /\ r.pc = "refreshed"
              /\ Len(r.batch) = 1 /\ Len(last'.event.entries) = 1
              /\ Reflects(notes, noteFnames, r.batch)
              /\ \A e \in {r.batch[1], last'.event.entries[1]} :
                    /\ e.note.id = r.arg[1].id
                    /\ e.note.fname = r.arg[1].fname /\ e.note.vault = r.arg[1].vault
                    /\ IF r.existing = <<>> THEN e.status = "create" /\ e.prev = <<>>
                       ELSE e.status = "update" /\ e.prev = r.existing]_vars
\* updateNote of a note under a new id at an fname that held a note: the
\* entry announced is an update whose prevNote is the note found there
C28_Witness ==
    /\ last.op = "updateNote" /\ last.out = "fired"
    /\ Len(last.event.entries) = 1
    /\ last.event.entries[1].status = "update"
    /\ last.event.entries[1].prev # <<>>
    /\ last.event.entries[1].prev[1].id # last.event.entries[1].note.id
    /\ last.event.entries[1].prev[1].fname = last.event.entries[1].note.fname

\* C31: ADD_MISSING_DEFAULT_CONFIGS writes dendron.yml only after a backup of
\* it was created in the same run, and what it writes has no namespace absent;
\* when the backup fails the run ends with an error and without a write; a run
\* that found no namespace absent writes nothing and makes no backup.
C31_WritesOnlyAfterBackup ==
    /\ [](/\ conf.wrote => conf.backupPath \in 1..Len(conf.backups)
          /\ (conf.pc = "idle" /\ conf.out.error # "") => (~conf.wrote /\ conf.out.exit /\ conf.backupPath = 0)
          /\ (conf.pc = "idle" /\ conf.runs > 0 /\ \A k \in ConfigKeys : conf.start[k] # "absent")
                 => (~conf.wrote /\ conf.backupPath = 0 /\ conf.out = ConfigOut(TRUE, "", 0)))
    /\ [][/\ conf'.raw # conf.raw => conf'.did \in {"writeConfig", "editConfig"}
          /\ conf'.did = "writeConfig" =>
                 /\ conf.backupPath = Len(conf.backups) /\ conf.backupPath > 0
                 /\ \A k \in ConfigKeys :
                        conf'.raw[k] = IF conf.start[k] = "absent" THEN "default" ELSE conf.start[k]
                 /\ conf'.out = ConfigOut(TRUE, "", conf.backupPath)
          /\ (conf'.did = "createBackup" /\ conf'.backups = conf.backups) =>
                 /\ conf'.raw = conf.raw
                 /\ conf'.pc = "idle"
                 /\ conf'.out.error # ""]_vars
\* a second run has backed up and written dendron.yml; the first run made no backup
C31_Witness ==
    /\ conf.did = "writeConfig"
    /\ conf.runs = 2
    /\ Len(conf.backups) = 1

\* C32: removeVault(v) right after addVault(v) leaves the vault list and the
\* duplicateNoteBehavior setting as they were before the addVault, and the
\* payload does not hold the name of v.
C32_AddThenRemoveRestores ==
    [][(conf.did.op = "addVault" /\ conf'.did = [op |-> "removeVault", vault |-> conf.did.vault]) =>
          /\ conf'.config = conf.before
          /\ \A k \in 1..Len(conf'.config.duplicateNoteBehavior.payload) :
                 conf'.config.duplicateNoteBehavior.payload[k] # getName(conf.did.vault)]_vars

\* C33: while a renameNote request of a command is in flight, in a workspace
\* with a file watcher and without noPauseWatcher / noModifyWatcher, the
\* watcher's pause flag is true.
C33_PausedWhileInFlight ==
    \A c \in 1..MaxRuns :
        (fw.exists /\ fw.cmd[c].pc = "inflight" /\ ~fw.cmd[c].noPauseWatcher) => fw.pause
\* the part of C33 about the end of a command: however it ended (returned,
\* cancelled or thrown), the timer it set runs and sets the flag to false
C33_EventuallyUnpaused ==
    \A c \in 1..MaxRuns :
        (fw.did.c = c /\ fw.cmd[c].pc = "done" /\ fw.did.op # "timeout"
                      /\ fw.exists /\ ~fw.cmd[c].noPauseWatcher)
            ~> (fw.did = [op |-> "timeout", c |-> c] /\ ~fw.pause)
\* the part of C33 about one command: execute sets the flag before its first
\* request goes out, and no step of a command clears it
C33_OnlyTimersUnpause ==
    [][/\ (fw'.did.op = "execute" /\ fw.exists /\ ~fw'.cmd[fw'.did.c].noPauseWatcher) => fw'.pause
       /\ (fw.pause /\ ~fw'.pause) => fw'.did.op = "timeout"]_vars

\* C34: the delayed unpause of an earlier command does not clear the pause
\* flag while a renameNote request of another command is in flight.
C34_TimerKeepsLaterCommandPaused ==
    [][(/\ fw'.did.op = "timeout"
        /\ fw.pause
        /\ \E c \in 1..MaxRuns : fw.cmd[c].pc = "inflight" /\ ~fw.cmd[c].noPauseWatcher)
          => fw'.pause]_vars

\* C35: the batch writeNote delivers with onEngineNoteStateChanged is the
\* batch it applied with refreshNotesV2, entry for entry; with updateExisting
\* the event holds no delete entry.
C35_WriteNoteFiresWhatItApplied ==
    [][(last'.op = "writeNote" /\ last'.out = "fired") =>
          \E r \in pending :
              /\ r.seq = last'.seq /\ r.pc = "refreshed"
              /\ Len(last'.event.entries) = Len(r.batch)
              /\ \A k \in 1..Len(r.batch) :
                     /\ last'.event.entries[k].status = r.batch[k].status
                     /\ last'.event.entries[k].note.id = r.batch[k].note.id
              /\ r.upd => \A k \in 1..Len(last'.event.entries) :
                              last'.event.entries[k].status # "delete"]_vars

\* C36: the fname index and the notes map agree: id i is listed under fname f
\* if and only if notes holds a note of id i whose fname is f.
C36_IndexAgreesWithNotes ==
    \A f \in Fnames, i \in Ids \cup GenIds :
        i \in noteFnames[f] <=> (i \in DOMAIN notes /\ notes[i].fname = f)
====
